---- MODULE Spec2Model ----
(***************************************************************************)
(* Model of the report markup parser (ReportXMLParser) and of the report   *)
(* generation steps around it (ConsolidatedReportGenerator) of             *)
(* src/src/agents/report_generator.py, and of the handling of requests by  *)
(* src/lambda_function.py with the cache and session managers, the session *)
(* gate and the status checkpoints of src/src/orchestrator.py, and the     *)
(* use case list of src/src/agents/use_case_generator.py.                  *)
(*                                                                         *)
(* A text is a sequence of atoms.  An atom is a string that the regular    *)
(* expressions of the source can only match as a whole: a tag such as      *)
(* "<content>", or a piece of plain text holding no angle bracket and no   *)
(* double quote.  The text atoms are prefix-free, so two texts are equal   *)
(* as Python strings exactly when their atom sequences are equal, and a    *)
(* position in the atom sequence orders as the character offset does.      *)
(* All tag atoms are lower case: the re.IGNORECASE flag of the block and   *)
(* formatting patterns is not exercised.                                   *)
(* A line feed is always an atom of its own, and three dots in a row lie   *)
(* inside one atom, never across two.  A run of digits and each square     *)
(* bracket are atoms of their own, and the bullet character U+2022 is      *)
(* written as an asterisk, which the texts do not hold otherwise.          *)
(***************************************************************************)
EXTENDS Integers, Sequences, FiniteSets, TLC

VARIABLES
    raw,               \* per call: the string the caller passes
    pc,                \* per call: position of parse_xml_tags
    xml_content,       \* per call: the local xml_content (stripped, trimmed)
    all_sections,      \* per call: the extracted blocks, sorted by start_pos
    idx,               \* per call: loop index of "for section in all_sections"
    citation_counter,  \* per call: the running citation number
    parsed_content,    \* per call: the dictionary being built and returned
    response,          \* what the report agent does when it is invoked
    custom_context,    \* "processed_prompt" or "None": the custom_context
                       \* argument has a processed prompt, or is missing
    use_cases,         \* the use cases handed to report generation
    scraped_results,   \* research_data['web_research_data']['scraped_results']
    report_pc,         \* position of generate_consolidated_report
    xml_report,        \* the local xml_report of generate_consolidated_report
    agent_calls,       \* invocations of self.report_agent so far
    fallback_calls,    \* invocations of the fallback generator so far
    pdf_file,          \* the file at pdf_filename: "none", "empty" or "ok"
    pdf_url,           \* what generate_consolidated_report returns
    render_pc,         \* position of the renderer of the PDF
    story,             \* the local story of the renderer: its flowables
    render_idx,        \* loop index of "for section in parsed_content[...]"
    builds,            \* calls of doc.build so far
    copy_calls,        \* calls of shutil.copyfile so far
    upload_calls,      \* calls of _upload_pdf_to_s3 so far
    statuses,          \* the checkpoints written through status_tracker
    start_result,      \* what _handle_start returns to process_request
    quality_arg,       \* the argument of _is_report_incomplete_or_repetitive
    quality_pc,        \* "idle", "called" or "returned"
    quality_result,    \* its return value, once returned
    today,             \* the calendar day of datetime.now()
    cache_table,       \* the items of the DynamoDB cache table
    inv_pc,            \* per invocation: position of lambda_handler
    event_body,        \* per invocation: the request body
    cached_result,     \* per invocation: what get_from_cache returned
    active_sessions,   \* per invocation: _active_sessions of its orchestrator
    session_store,     \* per invocation: the keys of the session_store of
                       \* its orchestrator
    handler_result,    \* per invocation: what process_request returned
    http_response,     \* per invocation: the body of the answer
    manager_sessions,  \* _active_sessions of a SessionManager shared by threads
    thr_pc,            \* per thread: position in process_request
    thr_key,           \* per thread: generate_session_key(payload)
    thr_action,        \* per thread: payload['action']
    thr_outcome,       \* per thread: what the handler came to
    thr_result,        \* per thread: what process_request returned
    starts_granted,    \* per key: start_session returned True this often
                       \* since the last complete_session for the key
    status_item,       \* the item of one session in the status table
    wr_pc,             \* position of the request that writes its checkpoints
    poll_result,       \* the latest answer to a status poll for the session
    generator,         \* what the use-case agent does when it is invoked
    uc_pc,             \* position of generate_dynamic_use_cases
    uc_returned,       \* the list it returned
    uc_checkpoints     \* the checkpoints it has written

parseVars ==
    <<raw, pc, xml_content, all_sections, idx, citation_counter, parsed_content>>

reportVars ==
    <<response, custom_context, use_cases, scraped_results, report_pc,
      xml_report,
      agent_calls, fallback_calls, pdf_file, pdf_url, render_pc, story,
      render_idx, builds, copy_calls, upload_calls, statuses,
      start_result>>

qualityVars == <<quality_arg, quality_pc, quality_result>>

requestVars ==
    <<today, cache_table, inv_pc, event_body, cached_result,
      active_sessions, session_store, handler_result, http_response>>

sessionVars ==
    <<manager_sessions, thr_pc, thr_key, thr_action, thr_outcome, thr_result,
      starts_granted>>

statusVars == <<status_item, wr_pc, poll_result>>

useCaseVars == <<generator, uc_pc, uc_returned, uc_checkpoints>>

orchestratorVars == <<sessionVars, statusVars, useCaseVars>>

vars == <<parseVars, reportVars, qualityVars, requestVars, orchestratorVars>>

----------------------------------------------------------------------------
(* Strings as atom sequences *)

Whitespace == {" ", "\n"}

RECURSIVE LStrip(_)
LStrip(s) ==
    IF s # <<>> /\ Head(s) \in Whitespace THEN LStrip(Tail(s)) ELSE s

RECURSIVE RStrip(_)
RStrip(s) ==
    IF s # <<>> /\ s[Len(s)] \in Whitespace
    THEN RStrip(SubSeq(s, 1, Len(s) - 1))
    ELSE s

\* str.strip()
Strip(s) == RStrip(LStrip(s))

Min(S) == CHOOSE x \in S : \A y \in S : x <= y

OpenTag(name) == "<" \o name \o ">"
CloseTag(name) == "</" \o name \o ">"

\* s[from..] starts with pat
StartsAt(s, pat, from) ==
    /\ from + Len(pat) - 1 <= Len(s)
    /\ \A k \in 1..Len(pat) : s[from + k - 1] = pat[k]

\* str.replace(old, new): every non-overlapping occurrence, left to right
RECURSIVE ReplaceFrom(_, _, _, _)
ReplaceFrom(s, old, new, from) ==
    IF from > Len(s) THEN <<>>
    ELSE IF StartsAt(s, old, from)
         THEN new \o ReplaceFrom(s, old, new, from + Len(old))
         ELSE <<s[from]>> \o ReplaceFrom(s, old, new, from + 1)

Replace(s, old, new) == ReplaceFrom(s, old, new, 1)

----------------------------------------------------------------------------
(* Regular expressions  <open>(.*?)<close>  with re.DOTALL *)

\* variant: an opening atom that nothing closes runs to the end of the text
NextPairOrEnd(s, open, close, from) ==
    LET starts == {i \in from..Len(s) : s[i] = open}
    IN  IF starts = {} THEN <<0, 0>>
        ELSE LET i == Min(starts)
                 ends == {j \in (i + 1)..Len(s) : s[j] = close}
             IN  <<i, IF ends = {} THEN Len(s) + 1 ELSE Min(ends)>>

\* re.search from position `from`: the leftmost opening atom that some closing
\* atom follows, with the nearest such closing atom (non-greedy group).
\* <<0, 0>> when there is no match.
NextPair(s, open, close, from) ==
    LET starts == {i \in from..Len(s) :
                      /\ s[i] = open
                      /\ \E j \in (i + 1)..Len(s) : s[j] = close}
    IN  IF starts = {} THEN <<0, 0>>
        ELSE LET i == Min(starts)
                 j == Min({j \in (i + 1)..Len(s) : s[j] = close})
             IN  <<i, j>>

\* re.finditer: the successive non-overlapping matches, as <<i, j>> pairs
RECURSIVE FindAll(_, _, _, _)
FindAll(s, open, close, from) ==
    LET m == NextPair(s, open, close, from)
    IN  IF m[1] = 0 THEN <<>>
        ELSE <<m>> \o FindAll(s, open, close, m[2] + 1)

\* re.sub(<open>(.*?)<close>, pre \1 post): matches are found in the input,
\* the replacement text is not scanned again
RECURSIVE SubFrom(_, _, _, _, _, _)
SubFrom(s, open, close, pre, post, from) ==
    LET m == NextPair(s, open, close, from)
    IN  IF m[1] = 0 THEN SubSeq(s, from, Len(s))
        ELSE SubSeq(s, from, m[1] - 1)
             \o pre \o SubSeq(s, m[1] + 1, m[2] - 1) \o post
             \o SubFrom(s, open, close, pre, post, m[2] + 1)

Sub(s, name, pre, post) ==
    SubFrom(s, OpenTag(name), CloseTag(name), pre, post, 1)

----------------------------------------------------------------------------
(* Character-level views of atom sequences *)

RECURSIVE CharLen(_)
\* len() of the string an atom sequence stands for
CharLen(s) == IF s = <<>> THEN 0 ELSE Len(Head(s)) + CharLen(Tail(s))

RECURSIVE Concat(_)
\* the string an atom sequence stands for
Concat(s) == IF s = <<>> THEN "" ELSE Head(s) \o Concat(Tail(s))

RECURSIVE LastChars(_, _)
\* s[-n:]: the last n characters; the atom the cut falls in is cut
LastChars(s, n) ==
    IF s = <<>> \/ n <= 0 THEN <<>>
    ELSE LET a == s[Len(s)]
         IN  IF Len(a) <= n
             THEN LastChars(SubSeq(s, 1, Len(s) - 1), n - Len(a)) \o <<a>>
             ELSE <<SubSeq(a, Len(a) - n + 1, Len(a))>>

\* needle in s, for a needle that no two neighbouring atoms form together
HasSubstring(s, needle) ==
    \E p \in 1..Len(s) :
        \E i \in 1..(Len(s[p]) - Len(needle) + 1) :
            SubSeq(s[p], i, i + Len(needle) - 1) = needle

\* s.endswith(suffix)
EndsWith(s, suffix) ==
    LET str == Concat(s)
    IN  /\ Len(str) >= Len(suffix)
        /\ SubSeq(str, Len(str) - Len(suffix) + 1, Len(str)) = suffix

\* s.split('\n') as the spans <<a, b>> of the lines: the atoms strictly
\* between positions a and b; a line feed is always an atom of its own
LineSpans(s) ==
    LET cuts == {p \in 1..Len(s) : s[p] = "\n"} \cup {0, Len(s) + 1}
    IN  {sp \in cuts \X cuts :
            /\ sp[1] < sp[2]
            /\ \A q \in cuts : ~(sp[1] < q /\ q < sp[2])}

RECURSIVE Take(_, _)
\* s[:n]: the first n characters; the atom the cut falls in is cut
Take(s, n) ==
    IF s = <<>> \/ n <= 0 THEN <<>>
    ELSE IF Len(Head(s)) <= n
         THEN <<Head(s)>> \o Take(Tail(s), n - Len(Head(s)))
         ELSE <<SubSeq(Head(s), 1, n)>>

----------------------------------------------------------------------------
(* The markup vocabulary *)

\* section_patterns, in scan order
section_patterns ==
    <<"content", "sub-heading-bold", "sub-heading", "section", "paragraph",
      "list", "table">>

TagNames ==
    {section_patterns[k] : k \in 1..Len(section_patterns)}
    \cup {"heading_bold", "bold", "italic", "underline", "bullet", "number",
          "citation_name", "citation_url", "b", "i", "u", "link", "note"}

\* atoms that are a complete <...> token
TagAtoms == {OpenTag(n) : n \in TagNames} \cup {CloseTag(n) : n \in TagNames}

\* the pieces of an inline reference marker around the url and the number
LinkOpen == "<link href=\""
LinkMid == "\">"

\* atoms holding a '<' that is not closed inside the atom, atoms holding a '>'
LtOnly == {LinkOpen, "<"}
HasGt(a) == a \in TagAtoms \/ a = LinkMid

\* re.search(r'<[^>]+>', s): index of the atom where the first match starts,
\* 0 when there is none
FirstTag(s) ==
    LET starts == {i \in 1..Len(s) :
                      \/ s[i] \in TagAtoms
                      \/ /\ s[i] \in LtOnly
                         /\ \E j \in (i + 1)..Len(s) : HasGt(s[j])}
    IN  IF starts = {} THEN 0 ELSE Min(starts)

\* title_match.group(1).strip(), or '' when heading_bold is not matched
ExtractTitle(s) ==
    LET m == NextPair(s, OpenTag("heading_bold"), CloseTag("heading_bold"), 1)
    IN  IF m[1] = 0 THEN <<>> ELSE Strip(SubSeq(s, m[1] + 1, m[2] - 1))

\* the matches of one pattern, as the dictionaries appended to all_sections
SectionsOf(s, name) ==
    LET ms == FindAll(s, OpenTag(name), CloseTag(name), 1)
    IN  [k \in 1..Len(ms) |->
            [type |-> name,
             content |-> SubSeq(s, ms[k][1] + 1, ms[k][2] - 1),
             start_pos |-> ms[k][1]]]

RECURSIVE ScanPatterns(_, _)
\* for pattern in section_patterns: ... all_sections.append(...)
ScanPatterns(s, k) ==
    IF k > Len(section_patterns) THEN <<>>
    ELSE SectionsOf(s, section_patterns[k]) \o ScanPatterns(s, k + 1)

\* insertion of one element after the elements that do not come after it
RECURSIVE InsertByPos(_, _)
InsertByPos(sorted, e) ==
    IF sorted = <<>> THEN <<e>>
    ELSE IF e.start_pos < Head(sorted).start_pos
         THEN <<e>> \o sorted
         ELSE <<Head(sorted)>> \o InsertByPos(Tail(sorted), e)

RECURSIVE SortFrom(_, _)
SortFrom(sorted, rest) ==
    IF rest = <<>> THEN sorted
    ELSE SortFrom(InsertByPos(sorted, Head(rest)), Tail(rest))

\* variant: the blocks stay in scan order
KeepScanOrder(secs) == secs

\* all_sections.sort(key=lambda x: x['start_pos']): stable, ascending
SortByStartPos(secs) == SortFrom(<<>>, secs)

\* the sorted block list of a trimmed text
ExtractSections(s) == SortByStartPos(ScanPatterns(s, 1))

----------------------------------------------------------------------------
(* _process_inline_citations *)

CNameOpen == OpenTag("citation_name")
CNameClose == CloseTag("citation_name")
CUrlOpen == OpenTag("citation_url")
CUrlClose == CloseTag("citation_url")

\* One match of
\*   <citation_name>(.*?)</citation_name><citation_url>(.*?)</citation_url>
\* searched from `from`: <<i, j, k>> with the name between i and j, the url
\* between j+1 and k; <<0, 0, 0>> when there is none.
NextCitation(s, from) ==
    LET Ends(i) == {j \in (i + 1)..(Len(s) - 1) :
                       /\ s[j] = CNameClose
                       /\ s[j + 1] = CUrlOpen
                       /\ \E k \in (j + 2)..Len(s) : s[k] = CUrlClose}
        starts == {i \in from..Len(s) : s[i] = CNameOpen /\ Ends(i) # {}}
    IN  IF starts = {} THEN <<0, 0, 0>>
        ELSE LET i == Min(starts)
                 j == Min(Ends(i))
                 k == Min({k \in (j + 2)..Len(s) : s[k] = CUrlClose})
             IN  <<i, j, k>>

RECURSIVE CitationMatches(_, _)
\* re.finditer(citation_pattern, content, re.DOTALL)
CitationMatches(s, from) ==
    LET m == NextCitation(s, from)
    IN  IF m[1] = 0 THEN <<>>
        ELSE <<m>> \o CitationMatches(s, m[3] + 1)

\* match.group(1).strip() and match.group(2).strip()
MatchName(s, m) == Strip(SubSeq(s, m[1] + 1, m[2] - 1))
MatchUrl(s, m) == Strip(SubSeq(s, m[2] + 2, m[3] - 1))

\* variant: only the name is tested
SkipOnEmptyName(name, url) == name = <<>>

\* "Skip if citation is empty or invalid": not citation_name or not citation_url
SkipCitation(name, url) == name = <<>> \/ url = <<>>

TitleLimit == 50

\* clean_title
CleanTitle(name) ==
    IF CharLen(name) > TitleLimit
    THEN Take(name, TitleLimit) \o <<"...">>
    ELSE name

\* citation_info
CitationInfo(number, name, url) ==
    [number |-> number, name |-> CleanTitle(name), url |-> url,
     full_name |-> name]

\* citation_tag: the tag pair rebuilt from the stripped values
CitationTag(name, url) ==
    <<CNameOpen>> \o name \o <<CNameClose, CUrlOpen>> \o url \o <<CUrlClose>>

\* variant: the marker carries the number after the increment
InlineCitationAfterIncrement(url, number) ==
    <<LinkOpen>> \o url
    \o <<LinkMid, "<u>", "[", ToString(number + 1), "]", "</u>", "</link>">>

\* inline_citation: <link href="{url}"><u>[{n}]</u></link>
InlineCitation(url, number) ==
    <<LinkOpen>> \o url
    \o <<LinkMid, "<u>", "[", ToString(number), "]", "</u>", "</link>">>

\* citations_dict[str(citation_counter)] = citation_info
DictPut(dict, key, value) ==
    [x \in DOMAIN dict \cup {key} |-> IF x = key THEN value ELSE dict[x]]

\* variant: a url already in the table is not entered again
CitationStepMergingUrls(content, m, st) ==
    LET name == MatchName(content, m)
        url == MatchUrl(content, m)
        info == CitationInfo(st.counter, name, url)
        known == {key \in DOMAIN st.citations : st.citations[key].url = url}
    IN  IF SkipCitation(name, url) \/ known # {} THEN st
        ELSE [processed |-> Replace(st.processed, CitationTag(name, url),
                                    InlineCitation(url, st.counter)),
              citations |-> DictPut(st.citations, ToString(st.counter), info),
              inline |-> Append(st.inline, info),
              counter |-> st.counter + 1]

\* the body of "for match in matches", for one match m of content
CitationStep(content, m, st) ==
    LET name == MatchName(content, m)
        url == MatchUrl(content, m)
        info == CitationInfo(st.counter, name, url)
    IN  IF SkipCitation(name, url) THEN st
        ELSE [processed |-> Replace(st.processed, CitationTag(name, url),
                                    InlineCitation(url, st.counter)),
              citations |-> DictPut(st.citations, ToString(st.counter), info),
              inline |-> Append(st.inline, info),
              counter |-> st.counter + 1]

RECURSIVE CitationLoop(_, _, _)
CitationLoop(content, ms, st) ==
    IF ms = <<>> THEN st
    ELSE CitationLoop(content, Tail(ms), CitationStep(content, Head(ms), st))

\* variant: the counter advances for every matched pair, skipped or not
ProcessInlineCitationsCountingSkipped(content, citations_dict, inline_citations, counter) ==
    [CitationLoop(content, CitationMatches(content, 1),
                  [processed |-> content, citations |-> citations_dict,
                   inline |-> inline_citations, counter |-> counter])
        EXCEPT !.counter = counter + Len(CitationMatches(content, 1))]

\* _process_inline_citations(content, citations_dict, inline_citations,
\* citation_counter): the processed text, the two updated collections and the
\* returned counter
ProcessInlineCitations(content, citations_dict, inline_citations, counter) ==
    CitationLoop(content, CitationMatches(content, 1),
                 [processed |-> content, citations |-> citations_dict,
                  inline |-> inline_citations, counter |-> counter])

----------------------------------------------------------------------------
(* _process_formatting_tags *)

RECURSIVE NumberFrom(_, _, _)
\* re.sub(r'<number>(.*?)</number>', replace_number, content)
NumberFrom(s, from, number_counter) ==
    LET m == NextPair(s, OpenTag("number"), CloseTag("number"), from)
    IN  IF m[1] = 0 THEN SubSeq(s, from, Len(s))
        ELSE SubSeq(s, from, m[1] - 1)
             \o <<ToString(number_counter), ". ">>
             \o SubSeq(s, m[1] + 1, m[2] - 1)
             \o NumberFrom(s, m[2] + 1, number_counter + 1)

FirstNumber == 1

\* the replacement prefix of a bullet item: U+2022 and a space in the source,
\* written with an ASCII asterisk here
BulletGlyph == "* "

\* variant: formatting tags left over after the substitutions are dropped
ProcessFormattingTagsStripping(content) ==
    LET c1 == Sub(content, "bold", <<"<b>">>, <<"</b>">>)
        c2 == Sub(c1, "italic", <<"<i>">>, <<"</i>">>)
        c3 == Sub(c2, "underline", <<"<u>">>, <<"</u>">>)
        c4 == Sub(c3, "bullet", <<BulletGlyph>>, <<>>)
        c5 == NumberFrom(c4, 1, FirstNumber)
        c6 == Sub(c5, "list", <<>>, <<>>)
        Kept(a) == \A n \in {"bold", "italic", "underline"} :
                       a # OpenTag(n) /\ a # CloseTag(n)
    IN  SelectSeq(c6, Kept)

ProcessFormattingTags(content) ==
    LET c1 == Sub(content, "bold", <<"<b>">>, <<"</b>">>)
        c2 == Sub(c1, "italic", <<"<i>">>, <<"</i>">>)
        c3 == Sub(c2, "underline", <<"<u>">>, <<"</u>">>)
        c4 == Sub(c3, "bullet", <<BulletGlyph>>, <<>>)
        c5 == NumberFrom(c4, 1, FirstNumber)
        c6 == Sub(c5, "list", <<>>, <<>>)
    IN  c6

----------------------------------------------------------------------------
(* parse_xml_tags, one call frame per invocation *)

\* the invocations of parse_xml_tags that may be in progress at once
Calls == {"call_a", "call_b", "call_c"}

\* parsed_content as created on entry
NewParsedContent ==
    [title |-> <<>>, sections |-> <<>>, citations |-> <<>>,
     inline_citations |-> <<>>]

\* citation_counter = 1
FirstCitation == 1

\* variant: one citation counter for all the calls, never reset
ParseBeginSharedCounter(c) ==
    /\ UNCHANGED <<reportVars, qualityVars, requestVars,
                   orchestratorVars>>
    /\ pc[c] = "called"
    /\ LET stripped == Strip(raw[c])
           first == FirstTag(stripped)
           trimmed == SubSeq(stripped, first, Len(stripped))
       IN  IF first = 0
           THEN /\ parsed_content' = [parsed_content EXCEPT ![c] = NewParsedContent]
                /\ xml_content' = [xml_content EXCEPT ![c] = stripped]
                /\ pc' = [pc EXCEPT ![c] = "returned"]
                /\ UNCHANGED <<raw, all_sections, idx, citation_counter>>
           ELSE /\ xml_content' = [xml_content EXCEPT ![c] = trimmed]
                /\ parsed_content' =
                       [parsed_content EXCEPT
                           ![c] = [NewParsedContent EXCEPT
                                      !.title = ExtractTitle(trimmed)]]
                /\ all_sections' = [all_sections EXCEPT ![c] = ExtractSections(trimmed)]
                /\ citation_counter' =
                       [citation_counter EXCEPT
                           ![c] = CHOOSE n \in {FirstCitation}
                                      \cup {citation_counter[d] : d \in Calls} :
                                      \A d \in Calls : n >= citation_counter[d]]
                /\ idx' = [idx EXCEPT ![c] = 1]
                /\ pc' = [pc EXCEPT ![c] = "loop"]
                /\ UNCHANGED raw

\* Entry up to the loop: strip, cut before the first tag (or return the empty
\* structure when there is no tag), title, block extraction and sort.
ParseBegin(c) ==
    /\ UNCHANGED <<reportVars, qualityVars, requestVars,
                   orchestratorVars>>
    /\ pc[c] = "called"
    /\ LET stripped == Strip(raw[c])
           first == FirstTag(stripped)
           trimmed == SubSeq(stripped, first, Len(stripped))
       IN  IF first = 0
           THEN /\ parsed_content' = [parsed_content EXCEPT ![c] = NewParsedContent]
                /\ xml_content' = [xml_content EXCEPT ![c] = stripped]
                /\ pc' = [pc EXCEPT ![c] = "returned"]
                /\ UNCHANGED <<raw, all_sections, idx, citation_counter>>
           ELSE /\ xml_content' = [xml_content EXCEPT ![c] = trimmed]
                /\ parsed_content' =
                       [parsed_content EXCEPT
                           ![c] = [NewParsedContent EXCEPT
                                      !.title = ExtractTitle(trimmed)]]
                /\ all_sections' = [all_sections EXCEPT ![c] = ExtractSections(trimmed)]
                /\ citation_counter' = [citation_counter EXCEPT ![c] = FirstCitation]
                /\ idx' = [idx EXCEPT ![c] = 1]
                /\ pc' = [pc EXCEPT ![c] = "loop"]
                /\ UNCHANGED raw

\* variant: every block starts its citations at FirstCitation again
ParseSectionResettingCounter(c) ==
    /\ UNCHANGED <<reportVars, qualityVars, requestVars,
                   orchestratorVars>>
    /\ pc[c] = "loop"
    /\ idx[c] <= Len(all_sections[c])
    /\ LET section == all_sections[c][idx[c]]
           r == ProcessInlineCitations(section.content,
                                       parsed_content[c].citations,
                                       parsed_content[c].inline_citations,
                                       FirstCitation)
           processed_content == ProcessFormattingTags(r.processed)
       IN  /\ parsed_content' =
                  [parsed_content EXCEPT
                      ![c] = [@ EXCEPT
                                 !.citations = r.citations,
                                 !.inline_citations = r.inline,
                                 !.sections =
                                     Append(@, [type |-> section.type,
                                                content |-> processed_content])]]
           /\ citation_counter' = [citation_counter EXCEPT ![c] = r.counter]
    /\ idx' = [idx EXCEPT ![c] = @ + 1]
    /\ UNCHANGED <<raw, pc, xml_content, all_sections>>

\* One iteration of "for section in all_sections"
ParseSection(c) ==
    /\ UNCHANGED <<reportVars, qualityVars, requestVars,
                   orchestratorVars>>
    /\ pc[c] = "loop"
    /\ idx[c] <= Len(all_sections[c])
    /\ LET section == all_sections[c][idx[c]]
           r == ProcessInlineCitations(section.content,
                                       parsed_content[c].citations,
                                       parsed_content[c].inline_citations,
                                       citation_counter[c])
           processed_content == ProcessFormattingTags(r.processed)
       IN  /\ parsed_content' =
                  [parsed_content EXCEPT
                      ![c] = [@ EXCEPT
                                 !.citations = r.citations,
                                 !.inline_citations = r.inline,
                                 !.sections =
                                     Append(@, [type |-> section.type,
                                                content |-> processed_content])]]
           /\ citation_counter' = [citation_counter EXCEPT ![c] = r.counter]
    /\ idx' = [idx EXCEPT ![c] = @ + 1]
    /\ UNCHANGED <<raw, pc, xml_content, all_sections>>

\* return parsed_content, after the last block
ParseReturn(c) ==
    /\ UNCHANGED <<reportVars, qualityVars, requestVars,
                   orchestratorVars>>
    /\ pc[c] = "loop"
    /\ idx[c] > Len(all_sections[c])
    /\ pc' = [pc EXCEPT ![c] = "returned"]
    /\ UNCHANGED <<raw, xml_content, all_sections, idx, citation_counter,
                   parsed_content>>

NextParse ==
    \E c \in Calls : ParseBegin(c) \/ ParseSection(c) \/ ParseReturn(c)

----------------------------------------------------------------------------
(* ConsolidatedReportGenerator: the quality heuristic *)

MinReportLength == 1000
ShortTail == 500
LongTail == 1000

\* len(unique_lines) / len(lines) < 0.7, on integers
TooRepetitive(unique, total) == 10 * unique < 7 * total

\* variant: the truncation marker is looked for in the last 500 characters only
IsReportIncompleteShortTail(xml) ==
    IF xml = <<>> \/ CharLen(xml) < MinReportLength THEN TRUE
    ELSE LET lines == LineSpans(xml)
             unique_lines ==
                 {Concat(SubSeq(xml, sp[1] + 1, sp[2] - 1)) : sp \in lines}
         IN  IF TooRepetitive(Cardinality(unique_lines), Cardinality(lines))
             THEN TRUE
             ELSE IF /\ ~EndsWith(xml, "</paragraph>")
                     /\ ~EndsWith(xml, "</content>")
             THEN TRUE
             ELSE HasSubstring(LastChars(xml, ShortTail), "...")

\* _is_report_incomplete_or_repetitive(xml_content)
IsReportIncompleteOrRepetitive(xml) ==
    IF xml = <<>> \/ CharLen(xml) < MinReportLength THEN TRUE
    ELSE LET lines == LineSpans(xml)
             unique_lines ==
                 {Concat(SubSeq(xml, sp[1] + 1, sp[2] - 1)) : sp \in lines}
         IN  IF TooRepetitive(Cardinality(unique_lines), Cardinality(lines))
             THEN TRUE
             ELSE IF /\ ~EndsWith(xml, "</paragraph>")
                     /\ ~EndsWith(xml, "</content>")
             THEN TRUE
             ELSE IF \/ HasSubstring(LastChars(xml, ShortTail), "...")
                     \/ HasSubstring(LastChars(xml, LongTail), "...")
             THEN TRUE
             ELSE FALSE

\* a direct call of the heuristic; nothing in the repository calls it
CheckReport ==
    /\ quality_pc = "called"
    /\ quality_result' = IsReportIncompleteOrRepetitive(quality_arg)
    /\ quality_pc' = "returned"
    /\ UNCHANGED <<quality_arg, parseVars, reportVars, requestVars,
                   orchestratorVars>>

NextQuality == CheckReport

----------------------------------------------------------------------------
(* ConsolidatedReportGenerator: from the agent's text to the uploaded PDF *)

CompanyName == "Acme"

\* an opening tag, a text and the closing tag of the same name
Block(name, text) == <<OpenTag(name)>> \o text \o <<CloseTag(name)>>

RECURSIVE LStripStr(_)
\* str.lstrip() on one string
LStripStr(str) ==
    IF Len(str) > 0 /\ SubSeq(str, 1, 1) \in Whitespace
    THEN LStripStr(SubSeq(str, 2, Len(str)))
    ELSE str

RECURSIVE RStripStr(_)
RStripStr(str) ==
    IF Len(str) > 0 /\ SubSeq(str, Len(str), Len(str)) \in Whitespace
    THEN RStripStr(SubSeq(str, 1, Len(str) - 1))
    ELSE str

StripStr(str) == LStripStr(RStripStr(str))

StartsWithStr(str, prefix) ==
    Len(str) >= Len(prefix) /\ SubSeq(str, 1, Len(prefix)) = prefix

TitlePrefixes == {"Home", "About", "Contact", "Services", "Products"}

\* re.sub(r'^(Home|About|Contact|Services|Products)\s*[-|]?\s*', '', title)
DropTitlePrefix(title) ==
    IF \E w \in TitlePrefixes : StartsWithStr(title, w)
    THEN LET w == CHOOSE v \in TitlePrefixes : StartsWithStr(title, v)
             r1 == LStripStr(SubSeq(title, Len(w) + 1, Len(title)))
             r2 == IF StartsWithStr(r1, "-") \/ StartsWithStr(r1, "|")
                   THEN SubSeq(r1, 2, Len(r1)) ELSE r1
         IN  LStripStr(r2)
    ELSE title

MinTitleLength == 10
MaxTitleLength == 80
CutTitleLength == 77
EnoughCitations == 5

\* the three citations added when fewer than five results are usable
FewFallbackCitations ==
    <<[name |-> "McKinsey Digital Transformation Research",
       url |-> "https://www.mckinsey.com/capabilities/mckinsey-digital"],
      [name |-> "Deloitte Technology Transformation",
       url |-> "https://www.deloitte.com/global/en/services/consulting/services/technology-transformation.html"],
      [name |-> "AWS Digital Transformation Guide",
       url |-> "https://aws.amazon.com/digital-transformation/"]>>

\* the body of "for result in scraped_results": the citation of one result,
\* or nothing
CitationOfResult(result) ==
    LET title == StripStr(result.title)
        url == StripStr(result.url)
        cleaned == DropTitlePrefix(title)
    IN  IF ~(result.success /\ result.url # "" /\ result.title # "")
        THEN <<>>
        ELSE IF Len(title) < MinTitleLength \/ ~StartsWithStr(url, "http")
        THEN <<>>
        ELSE <<[name |-> IF Len(cleaned) > MaxTitleLength
                         THEN SubSeq(cleaned, 1, CutTitleLength) \o "..."
                         ELSE cleaned,
                url |-> url]>>

RECURSIVE CitationsOfResults(_)
CitationsOfResults(results) ==
    IF results = <<>> THEN <<>>
    ELSE CitationOfResult(Head(results)) \o CitationsOfResults(Tail(results))

\* _prepare_real_citations_from_web_scraping(scraped_results) for a list that
\* is not empty (the only call the fallback generator makes)
PrepareRealCitations(results) ==
    LET real_citations == CitationsOfResults(results)
    IN  IF Len(real_citations) < EnoughCitations
        THEN real_citations \o FewFallbackCitations
        ELSE real_citations

\* _get_citation_tag(real_citations, index); index counts from 0
GetCitationTag(real_citations, index) ==
    IF real_citations = <<>> \/ index >= Len(real_citations) THEN <<>>
    ELSE LET citation == real_citations[(index % Len(real_citations)) + 1]
         IN  CitationTag(<<citation.name>>, <<citation.url>>)

\* use_case_section for the i-th use case, abridged to the blocks that hold
\* the title, the current state, the proposed solution and the four citation
\* tags
UseCaseSection(i, uc, citations) ==
    <<"\n">>
    \o Block("sub-heading", <<"3.", ToString(i), ": Use Case - ", uc.title>>)
    \o <<"\n">>
    \o Block("content",
             Block("bold", <<"Strategic Overview and Business Context">>)
             \o <<": ">> \o Block("italic", <<uc.title>>)
             \o <<" represents a critical transformation initiative ">>
             \o GetCitationTag(citations, i))
    \o <<"\n">>
    \o Block("paragraph",
             Block("bold", <<"Current State Assessment and Pain Points">>)
             \o <<": ", uc.current_state>>
             \o GetCitationTag(citations, i * 2))
    \o <<"\n">>
    \o Block("paragraph",
             Block("bold", <<"Proposed Transformation Solution and Technical Architecture">>)
             \o <<": ", uc.proposed_solution>>
             \o GetCitationTag(citations, i * 3))
    \o <<"\n">>
    \o Block("paragraph",
             Block("bold", <<"Implementation Roadmap and Timeline">>)
             \o <<": The phased implementation ">>
             \o GetCitationTag(citations, i * 4))
    \o <<"\n">>

RECURSIVE UseCaseSections(_, _, _)
UseCaseSections(ucs, i, citations) ==
    IF i > Len(ucs) THEN <<>>
    ELSE UseCaseSection(i, ucs[i], citations)
         \o UseCaseSections(ucs, i + 1, citations)

\* _create_fallback_xml_report_with_enhanced_formatting, abridged to the
\* title, the first block, the use case sections and the last paragraph.
\* full_report is assigned in the body of the loop over use_cases: with no
\* use case the return statement reads an unbound local.
CreateFallbackXmlReport(ucs, results) ==
    LET citations == IF results # <<>> THEN PrepareRealCitations(results)
                     ELSE <<>>
    IN  [raised |-> ucs = <<>>,
         text |-> IF ucs = <<>> THEN <<>>
                  ELSE Block("heading_bold",
                             <<"Comprehensive GenAI Transformation Strategy for ",
                               CompanyName>>)
                       \o <<"\n">>
                       \o Block("content",
                                <<"The convergence of ">>
                                \o Block("bold", <<CompanyName>>)
                                \o <<" and GenAI technologies ">>
                                \o GetCitationTag(citations, 0))
                       \o <<"\n">>
                       \o Block("sub-heading-bold",
                                <<"Section 3: Detailed Use Case Analysis">>)
                       \o <<"\n">>
                       \o UseCaseSections(ucs, 1, citations)
                       \o Block("paragraph",
                                Block("bold", <<"6-12 Month Horizon">>)
                                \o <<": Scale deployments">>)
                       \o <<"\n">>]


----------------------------------------------------------------------------
(* ConsolidatedReportGenerator._enhance_inline_citations_for_pdf *)

RECURSIVE IsDigits(_)
\* the atom is made of decimal digits only (\d*)
IsDigits(a) ==
    a = "" \/ (Head(a) \in {"0", "1", "2", "3", "4", "5", "6", "7", "8", "9"}
               /\ IsDigits(Tail(a)))

\* atoms holding a double quote
HasQuote(a) == a \in {LinkOpen, LinkMid}

\* re.sub(r'</?content>', ''), then paragraph, then section
WrapperTags ==
    {"<content>", "</content>", "<paragraph>", "</paragraph>", "<section>",
     "</section>"}

IsNotWrapperTag(a) == a \notin WrapperTags

\* a match of  <link href="([^"]*)"><u>\[(\d+)\]</u></link>  starting at p:
\* the positions of the closing quote and of the closing bracket, <<0, 0>>
\* without a match
LinkMatchAt(s, p) ==
    IF p > Len(s) \/ s[p] # LinkOpen THEN <<0, 0>>
    ELSE LET quotes == {q \in (p + 1)..Len(s) : HasQuote(s[q])}
         IN  IF quotes = {} THEN <<0, 0>>
             ELSE LET q == Min(quotes)
                      ends == {e \in (q + 3)..Len(s) : ~IsDigits(s[e])}
                  IN  IF s[q] # LinkMid \/ ~StartsAt(s, <<"<u>", "[">>, q + 1)
                         \/ ends = {}
                      THEN <<0, 0>>
                      ELSE IF Min(ends) > q + 3
                              /\ StartsAt(s, <<"]", "</u>", "</link>">>, Min(ends))
                      THEN <<q, Min(ends)>>
                      ELSE <<0, 0>>

FontOpen == "<font face=\"Helvetica-Bold\" size=\"8\">"

\* enhance_citation_link(match)
EnhancedLink(href, citation_num) ==
    <<LinkOpen>> \o href \o <<LinkMid, "<b>", FontOpen, "&nbsp;", "[">>
    \o citation_num \o <<"]", "&nbsp;", "</font>", "</b>", "</link>">>

RECURSIVE EnhanceLinksFrom(_, _)
\* re.sub(citation_link_pattern, enhance_citation_link, content)
EnhanceLinksFrom(s, p) ==
    IF p > Len(s) THEN <<>>
    ELSE LET m == LinkMatchAt(s, p)
         IN  IF m[1] = 0 THEN <<s[p]>> \o EnhanceLinksFrom(s, p + 1)
             ELSE EnhancedLink(SubSeq(s, p + 1, m[1] - 1),
                               SubSeq(s, m[1] + 3, m[2] - 1))
                  \o EnhanceLinksFrom(s, m[2] + 3)

FirstChar(a) == SubSeq(a, 1, 1)
LastChar(a) == SubSeq(a, Len(a), Len(a))

RECURSIVE CollapseFrom(_, _, _)
\* re.sub(r'\s+', ' ', content): inside an atom white space is single spaces,
\* so runs longer than one character only form where atoms meet
CollapseFrom(s, p, after_space) ==
    IF p > Len(s) THEN <<>>
    ELSE LET a == s[p]
         IN  IF a \in Whitespace
             THEN IF after_space THEN CollapseFrom(s, p + 1, TRUE)
                  ELSE <<" ">> \o CollapseFrom(s, p + 1, TRUE)
             ELSE IF a = "" THEN CollapseFrom(s, p + 1, after_space)
             ELSE IF after_space /\ FirstChar(a) = " "
             THEN IF Len(a) = 1 THEN CollapseFrom(s, p + 1, TRUE)
                  ELSE <<SubSeq(a, 2, Len(a))>>
                       \o CollapseFrom(s, p + 1, LastChar(a) = " ")
             ELSE <<a>> \o CollapseFrom(s, p + 1, LastChar(a) = " ")

\* str.strip() of a text whose white space is collapsed
StripCollapsed(s) ==
    LET t == Strip(s)
        u == IF t # <<>> /\ FirstChar(t[1]) = " "
             THEN <<SubSeq(t[1], 2, Len(t[1]))>> \o Tail(t) ELSE t
        n == Len(u)
    IN  IF n > 0 /\ LastChar(u[n]) = " "
        THEN SubSeq(u, 1, n - 1) \o <<SubSeq(u[n], 1, Len(u[n]) - 1)>>
        ELSE u

WordChars ==
    {"a", "b", "c", "d", "e", "f", "g", "h", "i", "j", "k", "l", "m", "n",
     "o", "p", "q", "r", "s", "t", "u", "v", "w", "x", "y", "z", "A", "B",
     "C", "D", "E", "F", "G", "H", "I", "J", "K", "L", "M", "N", "O", "P",
     "Q", "R", "S", "T", "U", "V", "W", "X", "Y", "Z", "0", "1", "2", "3",
     "4", "5", "6", "7", "8", "9", "_"}

\* [digits] starts at p: the position of the closing bracket, or 0
BracketAt(s, p) ==
    IF p > Len(s) \/ s[p] # "[" THEN 0
    ELSE LET ends == {e \in (p + 1)..Len(s) : ~IsDigits(s[e]) \/ s[e] = ""}
         IN  IF ends # {} /\ Min(ends) > p + 1 /\ s[Min(ends)] = "]"
             THEN Min(ends) ELSE 0

RECURSIVE SpaceBeforeFrom(_, _)
\* re.sub(r'(\w)\[(\d+)\]', r'\1 [\2]', content)
SpaceBeforeFrom(s, p) ==
    IF p > Len(s) THEN <<>>
    ELSE IF /\ p > 1
            /\ BracketAt(s, p) # 0
            /\ s[p - 1] # ""
            /\ LastChar(s[p - 1]) \in WordChars
         THEN <<" ">> \o SubSeq(s, p, BracketAt(s, p))
              \o SpaceBeforeFrom(s, BracketAt(s, p) + 1)
         ELSE <<s[p]>> \o SpaceBeforeFrom(s, p + 1)

RECURSIVE SpaceAfterFrom(_, _)
\* re.sub(r'\[(\d+)\](\w)', r'[\1] \2', content)
SpaceAfterFrom(s, p) ==
    IF p > Len(s) THEN <<>>
    ELSE LET e == BracketAt(s, p)
         IN  IF /\ e # 0
                /\ e < Len(s)
                /\ s[e + 1] # ""
                /\ FirstChar(s[e + 1]) \in WordChars
             THEN SubSeq(s, p, e) \o <<" ", s[e + 1]>>
                  \o SpaceAfterFrom(s, e + 2)
             ELSE <<s[p]>> \o SpaceAfterFrom(s, p + 1)

\* _enhance_inline_citations_for_pdf(content, citations); the citations are
\* looked up and not used
EnhanceInlineCitationsForPdf(content) ==
    LET c1 == SelectSeq(content, IsNotWrapperTag)
        c2 == EnhanceLinksFrom(c1, 1)
        c3 == StripCollapsed(CollapseFrom(c2, 1, FALSE))
        c4 == SpaceBeforeFrom(c3, 1)
    IN  SpaceAfterFrom(c4, 1)

----------------------------------------------------------------------------
(* ConsolidatedReportGenerator._create_professional_pdf_with_enhanced_formatting *)

\* the flowables appended to the story
Paragraph(text, style) ==
    [kind |-> "Paragraph", text |-> text, style |-> style, size |-> 0]

Spacer(width, height) ==
    [kind |-> "Spacer", text |-> <<>>, style |-> "", size |-> height]

HRFlowable(thickness) ==
    [kind |-> "HRFlowable", text |-> <<>>, style |-> "", size |-> thickness]

\* f'GenAI Transformation Strategy for {company_name}'
DefaultTitle == <<"GenAI Transformation Strategy for ", CompanyName>>

\* dict.get(key, default): the default only stands in for a missing key
DictGet(dict, key, default) ==
    IF key \in DOMAIN dict THEN dict[key] ELSE default

\* "Add title" and "Add horizontal rule"
TitleFlowables(parsed) ==
    <<Paragraph(DictGet(parsed, "title", DefaultTitle), "title_style"),
      Spacer(1, 20), HRFlowable(2), Spacer(1, 20)>>

NonEmpty(a) == a # ""

\* not section.get('content', '').strip()
IsBlank(content) == Strip(SelectSeq(content, NonEmpty)) = <<>>

\* "Apply appropriate style based on section type"
StyleOf(section_type) ==
    CASE section_type = "heading_bold" -> "main_heading_style"
      [] section_type = "sub-heading-bold" -> "sub_heading_bold_style"
      [] section_type = "sub-heading" -> "sub_heading_style"
      [] section_type = "paragraph" -> "paragraph_style"
      [] OTHER -> "content_style"

\* the bullet character, followed by its space or bare at the end of a text
BulletAtoms == {BulletGlyph, "*"}

RECURSIVE SplitBullets(_, _, _)
\* cleaned_content.split(bullet): the pieces between the bullet characters
SplitBullets(s, p, piece) ==
    IF p > Len(s) THEN <<piece>>
    ELSE IF s[p] \in BulletAtoms
         THEN <<piece>>
              \o SplitBullets(s, p + 1,
                              IF s[p] = BulletGlyph THEN <<" ">> ELSE <<>>)
         ELSE SplitBullets(s, p + 1, Append(piece, s[p]))

\* item.strip() of every piece, the empty ones left out
StrippedItems(pieces) ==
    LET stripped == [k \in 1..Len(pieces) |->
                        SelectSeq(StripCollapsed(SelectSeq(pieces[k], NonEmpty)),
                                  NonEmpty)]
        Kept(item) == item # <<>>
    IN  SelectSeq(stripped, Kept)

\* bullet_items
BulletItems(cleaned_content) ==
    StrippedItems(SplitBullets(cleaned_content, 1, <<>>))

IsDigitAtom(a) == a # "" /\ IsDigits(a)

\* \d+\. starts at p: the position of the atom that begins with the point,
\* or 0
NumberAt(s, p) ==
    IF p > Len(s) \/ ~IsDigitAtom(s[p]) THEN 0
    ELSE LET ends == {e \in (p + 1)..Len(s) : ~IsDigitAtom(s[e])}
         IN  IF ends # {} /\ FirstChar(s[Min(ends)]) = "." THEN Min(ends)
             ELSE 0

\* the first position from p on where \d+\. starts, Len(s) + 1 without one
NextNumber(s, p) ==
    Min({k \in p..Len(s) : NumberAt(s, k) # 0} \cup {Len(s) + 1})

RECURSIVE NumberedFrom(_, _)
\* re.findall(r'\d+\.\s*(.*?)(?=\d+\.|$)', cleaned_content, re.DOTALL)
NumberedFrom(s, p) ==
    LET k == NextNumber(s, p)
    IN  IF k > Len(s) THEN <<>>
        ELSE LET d == NumberAt(s, k)
                 n == NextNumber(s, d + 1)
             IN  <<<<SubSeq(s[d], 2, Len(s[d]))>> \o SubSeq(s, d + 1, n - 1)>>
                 \o NumberedFrom(s, n)

\* numbered_items, stripped, the empty ones left out
NumberedItems(cleaned_content) ==
    StrippedItems(NumberedFrom(cleaned_content, 1))

\* the paragraphs of a list block: the bullet items, then the numbered items
ListFlowables(cleaned_content) ==
    LET items == BulletItems(cleaned_content) \o NumberedItems(cleaned_content)
    IN  [k \in 1..Len(items) |->
            Paragraph(<<BulletGlyph>> \o items[k], "bullet_style")]

\* the body of "for section in parsed_content.get('sections', [])"
SectionFlowables(section) ==
    IF IsBlank(section.content) THEN <<>>
    ELSE LET cleaned_content == EnhanceInlineCitationsForPdf(section.content)
         IN  (IF section.type = "list" THEN ListFlowables(cleaned_content)
              ELSE <<Paragraph(cleaned_content, StyleOf(section.type))>>)
             \o <<Spacer(1, 8)>>

\* citation_text
CitationText(citation_num, citation_info) ==
    <<"[", citation_num, "]", " ", LinkOpen>> \o citation_info.url
    \o <<LinkMid>> \o citation_info.url \o <<"</link>">>

RECURSIVE CitationEntries(_, _)
\* "for citation_num, citation_info in citations.items()": the keys in the
\* order of their insertion, which is the order of the citation counter
CitationEntries(citations, k) ==
    IF ToString(k) \notin DOMAIN citations THEN <<>>
    ELSE <<Paragraph(CitationText(ToString(k), citations[ToString(k)]),
                     "content_style"),
           Spacer(1, 4)>>
         \o CitationEntries(citations, k + 1)

\* "Add citation summary section"
CitationFlowables(citations) ==
    IF DOMAIN citations = {} THEN <<>>
    ELSE <<Spacer(1, 20), HRFlowable(1), Spacer(1, 15),
           Paragraph(<<"Citation Sources">>, "sub_heading_bold_style"),
           Spacer(1, 10)>>
         \o CitationEntries(citations, FirstCitation)

----------------------------------------------------------------------------
(* generate_consolidated_report and _generate_and_upload_pdf_from_xml *)

\* what is returned while no report has been asked for
NoResult == [status |-> "unset", report_url |-> "unset"]

\* the values of the custom_context argument: a dict with a processed prompt,
\* or None (a dict without one behaves alike)
CustomContexts == {"processed_prompt", "None"}

\* "custom_context and custom_context.get('processed_prompt')"
HasProcessedPrompt(context) == context = "processed_prompt"

\* _generate_xml_report_with_enhanced_formatting, as called first by
\* generate_consolidated_report after the checkpoint of the start. The
\* assignment of xml_prompt is in the body of the test for a processed
\* prompt: without one, evaluating the argument of self.report_agent raises
\* UnboundLocalError inside the try and the agent is never invoked. The
\* agent's text, stripped, is returned as it is; the fallback is built in the
\* exception handler only, and what the fallback raises reaches the handler
\* of generate_consolidated_report, which writes the error checkpoint
GenerateXmlReport ==
    /\ report_pc = "start"
    /\ agent_calls' = IF HasProcessedPrompt(custom_context)
                      THEN agent_calls + 1 ELSE agent_calls
    /\ IF HasProcessedPrompt(custom_context) /\ ~response.raises
       THEN /\ xml_report' = Strip(response.text)
            /\ report_pc' = "xml"
            /\ statuses' = Append(statuses, "report_generation_started")
            /\ UNCHANGED <<fallback_calls, pdf_url>>
       ELSE LET fallback == CreateFallbackXmlReport(use_cases, scraped_results)
            IN  /\ fallback_calls' = fallback_calls + 1
                /\ IF fallback.raised
                   THEN /\ report_pc' = "done"
                        /\ pdf_url' = "None"
                        /\ statuses' = statuses
                                         \o <<"report_generation_started",
                                              "error">>
                        /\ UNCHANGED xml_report
                   ELSE /\ xml_report' = fallback.text
                        /\ report_pc' = "xml"
                        /\ statuses' =
                               Append(statuses, "report_generation_started")
                        /\ UNCHANGED pdf_url
    /\ UNCHANGED <<response, custom_context, use_cases,
                   scraped_results, pdf_file, render_pc,
                   story, render_idx, builds, copy_calls, upload_calls,
                   start_result, parseVars, qualityVars, requestVars,
                   orchestratorVars>>

\* _generate_and_upload_pdf_from_xml, entry: parse_xml_tags(xml_content)
BeginPdf ==
    /\ report_pc = "xml"
    /\ raw' = [raw EXCEPT !["call_a"] = xml_report]
    /\ xml_content' = [xml_content EXCEPT !["call_a"] = xml_report]
    /\ pc' = [pc EXCEPT !["call_a"] = "called"]
    /\ report_pc' = "parsing"
    /\ UNCHANGED <<all_sections, idx, citation_counter, parsed_content,
                   response, custom_context, use_cases, scraped_results,
                   xml_report,
                   agent_calls, fallback_calls, pdf_file, pdf_url, render_pc,
                   story, render_idx, builds, copy_calls, upload_calls,
                   statuses, start_result, qualityVars, requestVars,
                   orchestratorVars>>

\* what the steps below leave alone
UnchangedByRender ==
    UNCHANGED <<response, custom_context, use_cases,
                   scraped_results, xml_report, agent_calls,
                fallback_calls, statuses, start_result, parseVars,
                qualityVars, requestVars,
                   orchestratorVars>>

\* the temporary directory is made; without ReportLab None is returned, with
\* it the renderer is entered and its story is empty
RenderStart ==
    /\ report_pc = "parsing"
    /\ pc["call_a"] = "returned"
    /\ \E reportlab_available \in BOOLEAN :
          IF reportlab_available
          THEN /\ report_pc' = "rendering"
               /\ render_pc' = "title"
               /\ UNCHANGED pdf_url
          ELSE /\ report_pc' = "pdf_returned"
               /\ pdf_url' = "None"
               /\ UNCHANGED render_pc
    /\ story' = <<>>
    /\ render_idx' = 1
    /\ UNCHANGED <<pdf_file, builds, copy_calls, upload_calls>>
    /\ UnchangedByRender

\* the title, the space under it and the rule
RenderTitle ==
    /\ report_pc = "rendering"
    /\ render_pc = "title"
    /\ story' = story \o TitleFlowables(parsed_content["call_a"])
    /\ render_pc' = "sections"
    /\ UNCHANGED <<report_pc, pdf_file, pdf_url, render_idx, builds,
                   copy_calls, upload_calls>>
    /\ UnchangedByRender

\* one turn of the loop over the sections
RenderSection ==
    /\ report_pc = "rendering"
    /\ render_pc = "sections"
    /\ render_idx <= Len(parsed_content["call_a"].sections)
    /\ story' = story
                 \o SectionFlowables(parsed_content["call_a"].sections[render_idx])
    /\ render_idx' = render_idx + 1
    /\ UNCHANGED <<report_pc, pdf_file, pdf_url, render_pc, builds,
                   copy_calls, upload_calls>>
    /\ UnchangedByRender

\* after the loop: the citation summary, when there are citations
RenderCitations ==
    /\ report_pc = "rendering"
    /\ render_pc = "sections"
    /\ render_idx > Len(parsed_content["call_a"].sections)
    /\ story' = story \o CitationFlowables(parsed_content["call_a"].citations)
    /\ render_pc' = "build"
    /\ UNCHANGED <<report_pc, pdf_file, pdf_url, render_idx, builds,
                   copy_calls, upload_calls>>
    /\ UnchangedByRender

\* variant: the document can be built as soon as the title is in the story
RenderBuildEarly ==
    /\ report_pc = "rendering"
    /\ render_pc \in {"sections", "build"}
    /\ builds < 2
    /\ builds' = builds + 1
    /\ \E written \in {"ok", "empty", "none"} : pdf_file' = written
    /\ IF render_pc = "build"
       THEN render_pc' = "built" /\ report_pc' = "rendered"
       ELSE UNCHANGED <<render_pc, report_pc>>
    /\ UNCHANGED <<pdf_url, story, render_idx, copy_calls, upload_calls>>
    /\ UnchangedByRender

\* doc.build(story), the last statement of the renderer: the file it leaves
\* may be whole, empty or missing
RenderBuild ==
    /\ report_pc = "rendering"
    /\ render_pc = "build"
    /\ builds' = builds + 1
    /\ \E written \in {"ok", "empty", "none"} : pdf_file' = written
    /\ render_pc' = "built"
    /\ report_pc' = "rendered"
    /\ UNCHANGED <<pdf_url, story, render_idx, copy_calls, upload_calls>>
    /\ UnchangedByRender

\* a Paragraph that ReportLab cannot parse, or doc.build, raises: the
\* handler of _generate_and_upload_pdf_from_xml returns None; a build that
\* raises may leave an empty file behind
RenderRaises ==
    /\ report_pc = "rendering"
    /\ render_pc \in {"title", "sections", "build"}
    /\ IF render_pc = "build"
       THEN \E written \in {"empty", "none"} : pdf_file' = written
       ELSE UNCHANGED pdf_file
    /\ render_pc' = "failed"
    /\ report_pc' = "pdf_returned"
    /\ pdf_url' = "None"
    /\ UNCHANGED <<story, render_idx, builds, copy_calls, upload_calls>>
    /\ UnchangedByRender

\* variant: the file is copied without being verified
SavePdfUnverified ==
    /\ report_pc = "rendered"
    /\ copy_calls' = copy_calls + 1
    /\ report_pc' = "saved"
    /\ UNCHANGED pdf_url
    /\ UNCHANGED <<pdf_file, render_pc, story, render_idx, builds,
                   upload_calls>>
    /\ UnchangedByRender

\* "Verify PDF was created", then the local copy, whose failure is logged
\* and goes no further
SavePdf ==
    /\ report_pc = "rendered"
    /\ IF pdf_file = "ok"
       THEN /\ copy_calls' = copy_calls + 1
            /\ report_pc' = "saved"
            /\ UNCHANGED pdf_url
       ELSE /\ report_pc' = "pdf_returned"
            /\ pdf_url' = "None"
            /\ UNCHANGED copy_calls
    /\ UNCHANGED <<pdf_file, render_pc, story, render_idx, builds,
                   upload_calls>>
    /\ UnchangedByRender

S3Url == "https://bucket.s3.amazonaws.com/transformation-reports/report.pdf"

\* _upload_pdf_to_s3, which gives None when the upload fails, and the
\* removal of the temporary file, whose failure is logged and goes no further
UploadPdf ==
    /\ report_pc = "saved"
    /\ upload_calls' = upload_calls + 1
    /\ \E uploaded \in BOOLEAN :
          pdf_url' = IF uploaded THEN S3Url ELSE "None"
    /\ \E removed \in BOOLEAN :
          pdf_file' = IF removed THEN "none" ELSE pdf_file
    /\ report_pc' = "pdf_returned"
    /\ UNCHANGED <<render_pc, story, render_idx, builds, copy_calls>>
    /\ UnchangedByRender

\* generate_consolidated_report after _generate_and_upload_pdf_from_xml has
\* returned: the checkpoint of the completion is written whatever was
\* returned, and the value is handed on
FinishReport ==
    /\ report_pc = "pdf_returned"
    /\ statuses' = Append(statuses, "report_generation_completed")
    /\ report_pc' = "done"
    /\ UNCHANGED <<response, custom_context, use_cases,
                   scraped_results, xml_report,
                   agent_calls, fallback_calls, pdf_file, pdf_url, render_pc,
                   story, render_idx, builds, copy_calls, upload_calls,
                   start_result, parseVars, qualityVars, requestVars,
                   orchestratorVars>>

\* AgenticWAFROrchestrator._handle_start after generate_consolidated_report:
\* the result it returns
HandleStartReturn ==
    /\ report_pc = "done"
    /\ start_result' = [status |-> "use_cases_generated", report_url |-> pdf_url]
    /\ report_pc' = "returned"
    /\ UNCHANGED <<response, custom_context, use_cases,
                   scraped_results, xml_report,
                   agent_calls, fallback_calls, pdf_file, pdf_url, render_pc,
                   story, render_idx, builds, copy_calls, upload_calls,
                   statuses, parseVars, qualityVars, requestVars,
                   orchestratorVars>>

NextReport ==
    \/ GenerateXmlReport
    \/ BeginPdf
    \/ RenderStart
    \/ RenderTitle
    \/ RenderSection
    \/ RenderCitations
    \/ RenderBuild
    \/ RenderRaises
    \/ SavePdf
    \/ UploadPdf
    \/ FinishReport
    \/ HandleStartReturn

----------------------------------------------------------------------------
(* lambda_handler, CacheManager, SessionManager and                        *)
(* AgenticWAFROrchestrator.process_request: requests handled concurrently, *)
(* each by an invocation of its own, over one shared cache table           *)

\* the invocations of lambda_handler that can be in progress at once
Invocations == {"inv_a", "inv_b"}

UpperCase == "ABCDEFGHIJKLMNOPQRSTUVWXYZ"
LowerCase == "abcdefghijklmnopqrstuvwxyz"

\* str.lower() of one character
LowerChar(ch) ==
    LET at == {k \in 1..Len(UpperCase) : SubSeq(UpperCase, k, k) = ch}
    IN  IF at = {} THEN ch
        ELSE SubSeq(LowerCase, CHOOSE k \in at : TRUE, CHOOSE k \in at : TRUE)

RECURSIVE LowerStr(_)
\* str.lower()
LowerStr(str) ==
    IF str = "" THEN ""
    ELSE LowerChar(SubSeq(str, 1, 1)) \o LowerStr(SubSeq(str, 2, Len(str)))

\* the request is a poll of the status: action 'fetch', fetch_type 'status'
IsStatusPoll(payload) ==
    payload.action = "fetch" /\ payload.fetch_type = "status"

\* CacheManager.generate_cache_key: the normalised payload that is hashed;
\* the digest is taken to tell two normalised payloads apart
GenerateCacheKey(payload) ==
    [company_name |-> LowerStr(StripStr(payload.company_name)),
     company_url |-> LowerStr(StripStr(payload.company_url)),
     action |-> payload.action,
     fetch_type |-> IF payload.action = "fetch" THEN payload.fetch_type
                    ELSE ""]

\* SessionManager.generate_session_key: the normalised payload that is hashed
GenerateSessionKey(payload) ==
    [company_name |-> LowerStr(StripStr(payload.company_name)),
     company_url |-> LowerStr(StripStr(payload.company_url)),
     action |-> payload.action]

\* what a handler holds before it has a value
None ==
    [status |-> "None", cache_hit |-> FALSE, session_id |-> "", message |-> ""]

\* the items of the table under the key
ItemsOf(table, cache_key) == {item \in table : item.cache_key = cache_key}

\* variant: the day of the entry is not looked at
GetFromCacheAnyDay(table, cache_key, current_date) ==
    IF ItemsOf(table, cache_key) = {} THEN None
    ELSE LET item == CHOOSE i \in ItemsOf(table, cache_key) : TRUE
         IN  [status |-> item.result.status, cache_hit |-> TRUE]

\* CacheManager.get_from_cache: None without an item and for an item of an
\* earlier day, else the stored result with the note of the hit
GetFromCache(table, cache_key, current_date) ==
    IF ItemsOf(table, cache_key) = {} THEN None
    ELSE LET item == CHOOSE i \in ItemsOf(table, cache_key) : TRUE
         IN  IF current_date > item.cached_at THEN None
             ELSE [status |-> item.result.status, cache_hit |-> TRUE]

\* cache_table.put_item: the item replaces the one under the same key
PutItem(table, item) ==
    (table \ ItemsOf(table, item.cache_key)) \cup {item}

\* what process_request returns: its status, with no session id or message
Result(status) ==
    [status |-> status, cache_hit |-> FALSE, session_id |-> "", message |-> ""]

\* "session_id = payload.get('session_id', str(uuid.uuid4()))"
SessionIdOf(payload) ==
    IF payload.session_id = "" THEN "uuid4" ELSE payload.session_id

\* the result of a handler for a payload: its status, the session id and
\* the message
HandlerResult(status, payload, message) ==
    [status |-> status, cache_hit |-> FALSE,
     session_id |-> SessionIdOf(payload), message |-> message]

\* the body of an invocation that has not read one
NoBody ==
    [company_name |-> "", company_url |-> "", action |-> "",
     fetch_type |-> "", session_id |-> "", selected_use_case_ids |-> <<>>]

\* no invocation in progress, an empty cache table, the first day
NoRequest ==
    /\ today = 1
    /\ cache_table = {}
    /\ inv_pc = [i \in Invocations |-> "idle"]
    /\ event_body = [i \in Invocations |-> NoBody]
    /\ cached_result = [i \in Invocations |-> None]
    /\ active_sessions = [i \in Invocations |-> {}]
    /\ session_store = [i \in Invocations |-> {}]
    /\ handler_result = [i \in Invocations |-> None]
    /\ http_response = [i \in Invocations |-> None]

UnchangedByRequest ==
    UNCHANGED <<parseVars, reportVars, qualityVars, orchestratorVars>>

\* lambda_handler up to the cache: the body is read; a poll of the status
\* that names its session is answered from the status tracker at once
LambdaBegin(i, payload) ==
    /\ inv_pc[i] = "idle"
    /\ event_body' = [event_body EXCEPT ![i] = payload]
    /\ IF IsStatusPoll(payload) /\ payload.session_id # ""
       THEN /\ inv_pc' = [inv_pc EXCEPT ![i] = "answered"]
            /\ http_response' =
                   [http_response EXCEPT ![i] = Result("status_retrieved")]
       ELSE /\ inv_pc' = [inv_pc EXCEPT ![i] = "begun"]
            /\ UNCHANGED http_response
    /\ UNCHANGED <<today, cache_table, cached_result, active_sessions,
                   session_store, handler_result>>
    /\ UnchangedByRequest

\* "Generate and check cache": a hit is returned as the answer; a poll of
\* the status does not consult the cache
CheckCache(i) ==
    /\ inv_pc[i] = "begun"
    /\ LET cache_key == GenerateCacheKey(event_body[i])
           found == IF IsStatusPoll(event_body[i]) THEN None
                    ELSE GetFromCache(cache_table, cache_key, today)
       IN  /\ cached_result' = [cached_result EXCEPT ![i] = found]
           /\ IF found # None
              THEN /\ inv_pc' = [inv_pc EXCEPT ![i] = "answered"]
                   /\ http_response' = [http_response EXCEPT ![i] = found]
              ELSE /\ inv_pc' = [inv_pc EXCEPT ![i] = "miss"]
                   /\ UNCHANGED http_response
    /\ UNCHANGED <<today, cache_table, event_body, active_sessions,
                   session_store,
                   handler_result>>
    /\ UnchangedByRequest

\* orchestrator = AgenticWAFROrchestrator(): a new orchestrator with a new
\* SessionManager, whose _active_sessions is empty; then process_request up
\* to the start of the session
ProcessRequest(i) ==
    /\ inv_pc[i] = "miss"
    /\ LET sessions == {}
           session_key == GenerateSessionKey(event_body[i])
       IN  IF StripStr(event_body[i].company_name) = ""
           THEN /\ handler_result' =
                       [handler_result EXCEPT ![i] = Result("error")]
                /\ inv_pc' = [inv_pc EXCEPT ![i] = "processed"]
                /\ active_sessions' = [active_sessions EXCEPT ![i] = sessions]
           ELSE IF IsStatusPoll(event_body[i])
           THEN /\ handler_result' =
                       [handler_result EXCEPT ![i] = Result("status_check")]
                /\ inv_pc' = [inv_pc EXCEPT ![i] = "processed"]
                /\ active_sessions' = [active_sessions EXCEPT ![i] = sessions]
           ELSE IF session_key \in sessions
           THEN /\ handler_result' =
                       [handler_result EXCEPT ![i] = Result("in_progress")]
                /\ inv_pc' = [inv_pc EXCEPT ![i] = "processed"]
                /\ active_sessions' = [active_sessions EXCEPT ![i] = sessions]
           ELSE /\ active_sessions' =
                       [active_sessions EXCEPT
                           ![i] = sessions \cup {session_key}]
                /\ inv_pc' = [inv_pc EXCEPT ![i] = "pipeline"]
                /\ UNCHANGED handler_result
    /\ UNCHANGED <<today, cache_table, event_body, cached_result,
                   session_store, http_response>>
    /\ UnchangedByRequest

\* what _handle_select_use_cases comes to, given the session ids in the
\* session_store of the orchestrator: the result of process_request
HandleSelectUseCases(payload, store) ==
    IF payload.selected_use_case_ids = <<>>
    THEN HandlerResult("error", payload,
                       "No transformation use cases selected")
    ELSE IF SessionIdOf(payload) \notin store
    THEN HandlerResult("error", payload, "Session not found")
    ELSE HandlerResult("completed", payload, "")

\* the handler of the action and the end of process_request; the session is
\* completed whether the handler returns or raises. _handle_start (research,
\* use cases and report) stores the session data in the session_store of
\* this invocation's orchestrator
RunPipeline(i) ==
    /\ inv_pc[i] = "pipeline"
    /\ IF event_body[i].action = "select_use_cases"
       THEN /\ handler_result' =
                   [handler_result EXCEPT
                       ![i] = HandleSelectUseCases(event_body[i],
                                                   session_store[i])]
            /\ UNCHANGED session_store
       ELSE \E status \in {"use_cases_generated", "error"} :
               /\ handler_result' =
                      [handler_result EXCEPT
                          ![i] = HandlerResult(status, event_body[i], "")]
               /\ session_store' =
                      [session_store EXCEPT
                          ![i] = IF status = "use_cases_generated"
                                 THEN @ \cup {SessionIdOf(event_body[i])}
                                 ELSE @]
    /\ active_sessions' =
           [active_sessions EXCEPT
               ![i] = @ \ {GenerateSessionKey(event_body[i])}]
    /\ inv_pc' = [inv_pc EXCEPT ![i] = "processed"]
    /\ UNCHANGED <<today, cache_table, event_body, cached_result,
                   http_response>>
    /\ UnchangedByRequest

\* "Cache result" and the answer: save_to_cache stamps the item with the
\* current day; its failure is logged and goes no further
SaveAndAnswer(i) ==
    /\ inv_pc[i] = "processed"
    /\ IF IsStatusPoll(event_body[i]) THEN UNCHANGED cache_table
       ELSE \E saved \in BOOLEAN :
               cache_table' =
                   IF saved
                   THEN PutItem(cache_table,
                                [cache_key |->
                                     GenerateCacheKey(event_body[i]),
                                 result |-> handler_result[i],
                                 cached_at |-> today])
                   ELSE cache_table
    /\ http_response' = [http_response EXCEPT ![i] = handler_result[i]]
    /\ inv_pc' = [inv_pc EXCEPT ![i] = "answered"]
    /\ UNCHANGED <<today, event_body, cached_result, active_sessions,
                   session_store, handler_result>>
    /\ UnchangedByRequest

\* the invocation ends; its locals are gone
LambdaReturn(i) ==
    /\ inv_pc[i] = "answered"
    /\ inv_pc' = [inv_pc EXCEPT ![i] = "idle"]
    /\ event_body' = [event_body EXCEPT ![i] = NoBody]
    /\ cached_result' = [cached_result EXCEPT ![i] = None]
    /\ active_sessions' = [active_sessions EXCEPT ![i] = {}]
    /\ session_store' = [session_store EXCEPT ![i] = {}]
    /\ handler_result' = [handler_result EXCEPT ![i] = None]
    /\ http_response' = [http_response EXCEPT ![i] = None]
    /\ UNCHANGED <<today, cache_table>>
    /\ UnchangedByRequest

MaxDay == 2

\* the calendar day of datetime.now() changes
Midnight ==
    /\ today < MaxDay
    /\ today' = today + 1
    /\ UNCHANGED <<cache_table, inv_pc, event_body, cached_result,
                   active_sessions, session_store, handler_result,
                   http_response>>
    /\ UnchangedByRequest

----------------------------------------------------------------------------
(* SessionManager and the session gate of process_request, for concurrent
   calls on one orchestrator *)

\* the concurrent calls of process_request on the one orchestrator
Threads == {"thr_a", "thr_b", "thr_c"}

\* the values of generate_session_key for the payloads in flight
SessionKeys == {"key_x", "key_y"}

Actions == {"start", "select_use_cases", "other"}

\* is_session_active, under the lock
IsSessionActive(sessions, session_key) == session_key \in sessions

\* get_session_info, under the lock: the stored record, or the empty dict
GetSessionInfo(sessions, session_key) ==
    IF session_key \in sessions THEN "recorded" ELSE "None"

\* variant: the membership test left out
StartSessionUnchecked(sessions, session_key) ==
    [started |-> TRUE, sessions |-> sessions \cup {session_key}]

\* start_session, under the lock: the return value and the sessions after it
StartSession(sessions, session_key) ==
    IF session_key \in sessions
    THEN [started |-> FALSE, sessions |-> sessions]
    ELSE [started |-> TRUE, sessions |-> sessions \cup {session_key}]

\* variant: the record is marked completed but not deleted
CompleteSessionKeeping(sessions, session_key) == sessions

\* complete_session, under the lock: the sessions after it
CompleteSession(sessions, session_key) == sessions \ {session_key}

\* what the handler of an action can come to: the status of the dict it
\* returns, or "raised"
HandlerOutcomes(action) ==
    IF action = "start" THEN {"use_cases_generated", "raised"}
    ELSE IF action = "select_use_cases" THEN {"completed", "error", "raised"}
    ELSE {"error"}

NoAnswer == [status |-> "None", started_at |-> "None"]

NoSessionCalls ==
    /\ manager_sessions = {}
    /\ thr_pc = [t \in Threads |-> "idle"]
    /\ thr_key = [t \in Threads |-> "None"]
    /\ thr_action = [t \in Threads |-> "None"]
    /\ thr_outcome = [t \in Threads |-> "None"]
    /\ thr_result = [t \in Threads |-> NoAnswer]
    /\ starts_granted = [k \in SessionKeys |-> 0]

UnchangedBySession ==
    UNCHANGED <<parseVars, reportVars, qualityVars, requestVars, statusVars,
                useCaseVars>>

\* process_request is called with a payload of the given session key and
\* action; the checks before the gate have passed
ProcessRequestBegin(t, session_key, action) ==
    /\ thr_pc[t] = "idle"
    /\ thr_pc' = [thr_pc EXCEPT ![t] = "gate"]
    /\ thr_key' = [thr_key EXCEPT ![t] = session_key]
    /\ thr_action' = [thr_action EXCEPT ![t] = action]
    /\ UNCHANGED <<manager_sessions, thr_outcome, thr_result, starts_granted>>
    /\ UnchangedBySession

\* "if self.session_manager.is_session_active(session_key)"
GateCheck(t) ==
    /\ thr_pc[t] = "gate"
    /\ thr_pc' = [thr_pc EXCEPT
                     ![t] = IF IsSessionActive(manager_sessions, thr_key[t])
                            THEN "info" ELSE "starting"]
    /\ UNCHANGED <<manager_sessions, thr_key, thr_action, thr_outcome,
                   thr_result, starts_granted>>
    /\ UnchangedBySession

\* get_session_info and the 'in_progress' answer of the first branch
GateInfo(t) ==
    /\ thr_pc[t] = "info"
    /\ thr_result' =
           [thr_result EXCEPT
               ![t] = [status |-> "in_progress",
                       started_at |-> GetSessionInfo(manager_sessions,
                                                     thr_key[t])]]
    /\ thr_pc' = [thr_pc EXCEPT ![t] = "returned"]
    /\ UNCHANGED <<manager_sessions, thr_key, thr_action, thr_outcome,
                   starts_granted>>
    /\ UnchangedBySession

\* "if not self.session_manager.start_session(session_key, payload)": the
\* 'in_progress' answer of the race branch, or on into the try block
GateStart(t) ==
    /\ thr_pc[t] = "starting"
    /\ LET r == StartSession(manager_sessions, thr_key[t])
       IN  /\ manager_sessions' = r.sessions
           /\ IF r.started
              THEN /\ thr_pc' = [thr_pc EXCEPT ![t] = "handler"]
                   /\ starts_granted' =
                          [starts_granted EXCEPT ![thr_key[t]] = @ + 1]
                   /\ UNCHANGED thr_result
              ELSE /\ thr_pc' = [thr_pc EXCEPT ![t] = "returned"]
                   /\ thr_result' =
                          [thr_result EXCEPT
                              ![t] = [status |-> "in_progress",
                                      started_at |-> "None"]]
                   /\ UNCHANGED starts_granted
    /\ UNCHANGED <<thr_key, thr_action, thr_outcome>>
    /\ UnchangedBySession

\* the handler of the action runs: it returns a dict or raises
RunHandler(t) ==
    /\ thr_pc[t] = "handler"
    /\ \E outcome \in HandlerOutcomes(thr_action[t]) :
          /\ thr_outcome' = [thr_outcome EXCEPT ![t] = outcome]
          /\ thr_pc' = [thr_pc EXCEPT
                           ![t] = IF outcome = "raised" THEN "except"
                                  ELSE "completing"]
    /\ UNCHANGED <<manager_sessions, thr_key, thr_action, thr_result,
                   starts_granted>>
    /\ UnchangedBySession

\* after the handler has returned: complete_session and "return result"
FinishTry(t) ==
    /\ thr_pc[t] = "completing"
    /\ manager_sessions' = CompleteSession(manager_sessions, thr_key[t])
    /\ starts_granted' = [starts_granted EXCEPT ![thr_key[t]] = 0]
    /\ thr_result' =
           [thr_result EXCEPT
               ![t] = [status |-> thr_outcome[t], started_at |-> "None"]]
    /\ thr_pc' = [thr_pc EXCEPT ![t] = "returned"]
    /\ UNCHANGED <<thr_key, thr_action, thr_outcome>>
    /\ UnchangedBySession

\* the inner except: complete_session and raise; the outer except returns
\* the error dict
FinishExcept(t) ==
    /\ thr_pc[t] = "except"
    /\ manager_sessions' = CompleteSession(manager_sessions, thr_key[t])
    /\ starts_granted' = [starts_granted EXCEPT ![thr_key[t]] = 0]
    /\ thr_result' =
           [thr_result EXCEPT
               ![t] = [status |-> "error", started_at |-> "None"]]
    /\ thr_pc' = [thr_pc EXCEPT ![t] = "returned"]
    /\ UNCHANGED <<thr_key, thr_action, thr_outcome>>
    /\ UnchangedBySession

\* the caller has the answer and the locals of the call are gone; the thread
\* is free for another request
ThreadDone(t) ==
    /\ thr_pc[t] = "returned"
    /\ thr_pc' = [thr_pc EXCEPT ![t] = "idle"]
    /\ thr_key' = [thr_key EXCEPT ![t] = "None"]
    /\ thr_action' = [thr_action EXCEPT ![t] = "None"]
    /\ thr_outcome' = [thr_outcome EXCEPT ![t] = "None"]
    /\ thr_result' = [thr_result EXCEPT ![t] = NoAnswer]
    /\ UNCHANGED <<manager_sessions, starts_granted>>
    /\ UnchangedBySession

NextSessions ==
    \E t \in Threads :
        \/ \E k \in SessionKeys, a \in Actions : ProcessRequestBegin(t, k, a)
        \/ GateCheck(t)
        \/ GateInfo(t)
        \/ GateStart(t)
        \/ RunHandler(t)
        \/ FinishTry(t)
        \/ FinishExcept(t)
        \/ ThreadDone(t)

----------------------------------------------------------------------------
(* StatusTracker, the checkpoints one request writes for its session, and
   the status poll of lambda_handler *)

\* the session has no item in the status table
NoItem ==
    [present |-> FALSE, current_status |-> "None", checkpoint_history |-> <<>>]

\* _get_checkpoint_history: the stored list, or [] when there is no item or
\* get_item raises
GetCheckpointHistory(item, read_ok) ==
    IF read_ok /\ item.present THEN item.checkpoint_history ELSE <<>>

\* update_status: the item of the session after the call. The full item
\* carries the history read plus the checkpoint; when its put_item raises the
\* simplified item carries the checkpoint alone; when that raises too the
\* table is as before
UpdateStatus(item, checkpoint, read_ok, put_ok, fallback_ok) ==
    IF put_ok
    THEN [present |-> TRUE, current_status |-> checkpoint,
          checkpoint_history |->
              Append(GetCheckpointHistory(item, read_ok), checkpoint)]
    ELSE IF fallback_ok
    THEN [present |-> TRUE, current_status |-> checkpoint,
          checkpoint_history |-> <<checkpoint>>]
    ELSE item

\* get_current_status()['current_status']
GetCurrentStatus(item, read_ok) ==
    IF ~read_ok THEN "error"
    ELSE IF item.present THEN item.current_status
    ELSE "unknown"

\* the statuses for which the poll answers polling_recommended = false
PollingEnds ==
    {"completed", "error", "use_cases_generated", "report_generation_completed"}

PollingRecommended(current_status) == current_status \notin PollingEnds

NoPoll ==
    [polled |-> FALSE, read_ok |-> TRUE, current_status |-> "None",
     polling_recommended |-> TRUE]

NoStatus ==
    /\ status_item = NoItem
    /\ wr_pc = "idle"
    /\ poll_result = NoPoll

UnchangedByStatus ==
    UNCHANGED <<parseVars, reportVars, qualityVars, requestVars, sessionVars,
                useCaseVars>>

\* one call of update_status by the request, which moves on to position to
WriteStatus(checkpoint, to) ==
    /\ \E read_ok, put_ok, fallback_ok \in BOOLEAN :
          status_item' = UpdateStatus(status_item, checkpoint, read_ok, put_ok,
                                      fallback_ok)
    /\ wr_pc' = to
    /\ UNCHANGED poll_result
    /\ UnchangedByStatus

\* process_request of a 'start' request up to the session gate: INITIATED,
\* and CUSTOM_PROMPT_PROCESSING when the payload has a prompt
StatusInitiated ==
    \/ /\ wr_pc = "idle"
       /\ WriteStatus("initiated", "initiated")
    \/ /\ wr_pc = "initiated"
       /\ WriteStatus("custom_prompt_processing", "prompt_processed")

\* conduct_comprehensive_research: its checkpoints in order; an exception
\* inside its try block is recorded as ERROR and the fallback research is
\* returned
StatusResearch ==
    \/ /\ wr_pc \in {"initiated", "prompt_processed"}
       /\ WriteStatus("research_started", "research_started")
    \/ /\ wr_pc = "research_started"
       /\ WriteStatus("web_scraping_started", "web_scraping_started")
    \/ /\ wr_pc = "web_scraping_started"
       /\ WriteStatus("web_scraping_completed", "web_scraping_completed")
    \/ /\ wr_pc \in {"research_started", "web_scraping_completed"}
       /\ WriteStatus("research_in_progress", "research_in_progress")
    \/ /\ wr_pc = "research_in_progress"
       /\ \/ WriteStatus("research_completed", "researched")
          \/ WriteStatus("error", "researched")

\* _handle_start after the research: AGENT_ANALYZING
StatusAnalyzing ==
    /\ wr_pc = "researched"
    /\ WriteStatus("agent_analyzing", "agent_analyzing")

\* generate_dynamic_use_cases: USE_CASES_GENERATING, then USE_CASES_GENERATED
\* before it returns the use cases, or ERROR before it returns the fallback
\* use cases
StatusUseCases ==
    \/ /\ wr_pc = "agent_analyzing"
       /\ WriteStatus("use_cases_generating", "use_cases_generating")
    \/ /\ wr_pc = "use_cases_generating"
       /\ \/ WriteStatus("use_cases_generated", "use_cases_returned")
          \/ WriteStatus("error", "use_cases_returned")

\* generate_consolidated_report: REPORT_GENERATION_STARTED, then
\* REPORT_GENERATION_COMPLETED, or ERROR when it returns None
StatusReport ==
    \/ /\ wr_pc = "use_cases_returned"
       /\ WriteStatus("report_generation_started", "report_started")
    \/ /\ wr_pc = "report_started"
       /\ \/ WriteStatus("report_generation_completed", "report_returned")
          \/ WriteStatus("error", "report_returned")

\* process_request after _handle_start has returned 'use_cases_generated':
\* the final USE_CASES_GENERATED, complete_session and the return
StatusFinal ==
    /\ wr_pc = "report_returned"
    /\ WriteStatus("use_cases_generated", "finished")

\* an exception out of _handle_start: the inner except of process_request
\* writes ERROR and the request returns the error result
StatusExcept ==
    /\ wr_pc \in {"researched", "agent_analyzing", "use_cases_returned",
                  "report_returned"}
    /\ WriteStatus("error", "finished")

\* lambda_handler for a status poll with the session id: the current status
\* and polling_recommended
PollStatus ==
    /\ \E read_ok \in BOOLEAN :
          LET current_status == GetCurrentStatus(status_item, read_ok)
          IN  poll_result' =
                  [polled |-> TRUE, read_ok |-> read_ok,
                   current_status |-> current_status,
                   polling_recommended |-> PollingRecommended(current_status)]
    /\ UNCHANGED <<status_item, wr_pc>>
    /\ UnchangedByStatus

NextStatus ==
    \/ StatusInitiated
    \/ StatusResearch
    \/ StatusAnalyzing
    \/ StatusUseCases
    \/ StatusReport
    \/ StatusFinal
    \/ StatusExcept
    \/ PollStatus

----------------------------------------------------------------------------
(* generate_dynamic_use_cases: the list of use cases, as their dynamic ids *)

\* the names of the templates of _generate_supplemental_use_cases
business_supplements ==
    <<"Advanced Business Intelligence and Analytics Platform",
      "Customer Experience Optimization and Personalization",
      "Intelligent Process Automation and Workflow Optimization">>

\* the names of the templates of _generate_fallback_use_cases
fallback_templates ==
    <<"Digital Platform Modernization and Cloud Migration",
      "Enterprise Data Analytics and Business Intelligence",
      "Comprehensive Security and Compliance Framework",
      "Unified Customer Experience Platform",
      "Intelligent Process Automation and Workflow Optimization">>

EnoughParsed == 5
SupplementTarget == 8
MaxReturned == 10

\* a use case: its title and its dynamic_id
UseCaseOf(title, dynamic_id) == [title |-> title, dynamic_id |-> dynamic_id]

\* the <usecase> blocks of a response, in order, each one parsed by
\* _parse_single_xml_use_case: the blocks it returns None for are left out
RECURSIVE ParsedFrom(_, _)
ParsedFrom(blocks, i) ==
    IF i > Len(blocks) THEN <<>>
    ELSE (IF blocks[i] = "parses"
          THEN <<UseCaseOf("Parsed",
                           "business-transformation-" \o ToString(i - 1))>>
          ELSE <<>>)
         \o ParsedFrom(blocks, i + 1)

\* _generate_supplemental_use_cases(company_profile, current_count)
GenerateSupplementalUseCases(current_count) ==
    LET needed_count == IF SupplementTarget - current_count >= 0
                        THEN SupplementTarget - current_count ELSE 0
    IN  [i \in 1..Min({needed_count, Len(business_supplements)}) |->
            UseCaseOf(business_supplements[i],
                      "business-transformation-supplement-"
                          \o ToString(current_count + i))]

\* variant: the list is not cut
ParseXmlFormattedUseCasesUncut(blocks) ==
    LET parsed == ParsedFrom(blocks, 1)
    IN  IF Len(parsed) < EnoughParsed
        THEN parsed \o GenerateSupplementalUseCases(Len(parsed))
        ELSE parsed

\* _parse_xml_formatted_use_cases(response_text, company_profile)
ParseXmlFormattedUseCases(blocks) ==
    LET parsed == ParsedFrom(blocks, 1)
        use_cases_ == IF Len(parsed) < EnoughParsed
                      THEN parsed \o GenerateSupplementalUseCases(Len(parsed))
                      ELSE parsed
    IN  SubSeq(use_cases_, 1, Min({Len(use_cases_), MaxReturned}))

\* _generate_fallback_use_cases
GenerateFallbackUseCases ==
    [i \in 1..Len(fallback_templates) |->
        UseCaseOf(fallback_templates[i],
                  "business-transformation-fallback-" \o ToString(i))]

\* generate_dynamic_use_cases: the returned list and the checkpoints written
GenerateDynamicUseCases(agent) ==
    IF agent.raises
    THEN [use_cases |-> GenerateFallbackUseCases,
          checkpoints |-> <<"use_cases_generating", "error">>]
    ELSE LET parsed == ParseXmlFormattedUseCases(agent.blocks)
         IN  [use_cases |-> IF parsed = <<>> THEN GenerateFallbackUseCases
                            ELSE parsed,
              checkpoints |-> <<"use_cases_generating", "use_cases_generated">>]

NoGeneration ==
    /\ generator = [raises |-> FALSE, blocks |-> <<>>]
    /\ uc_pc = "idle"
    /\ uc_returned = <<>>
    /\ uc_checkpoints = <<>>

UnchangedByGeneration ==
    UNCHANGED <<parseVars, reportVars, qualityVars, requestVars, sessionVars,
                statusVars>>

\* the call: the prompt is built and USE_CASES_GENERATING is written
GenerateUseCasesBegin ==
    /\ uc_pc = "called"
    /\ uc_pc' = "generating"
    /\ uc_checkpoints' = <<"use_cases_generating">>
    /\ UNCHANGED <<generator, uc_returned>>
    /\ UnchangedByGeneration

\* the try block and its handler, to the return
GenerateUseCasesReturn ==
    /\ uc_pc = "generating"
    /\ uc_returned' = GenerateDynamicUseCases(generator).use_cases
    /\ uc_checkpoints' = GenerateDynamicUseCases(generator).checkpoints
    /\ uc_pc' = "returned"
    /\ UNCHANGED generator
    /\ UnchangedByGeneration

NextGeneration == GenerateUseCasesBegin \/ GenerateUseCasesReturn

\* nothing in progress on the shared orchestrator, no status written, no
\* use cases asked for
NoOrchestrator == NoSessionCalls /\ NoStatus /\ NoGeneration

----------------------------------------------------------------------------
(* Inputs *)

SeqsUpTo(S, n) == UNION {[1..k -> S] : k \in 0..n}

RECURSIVE Flatten(_)
Flatten(ss) == IF ss = <<>> THEN <<>> ELSE Head(ss) \o Flatten(Tail(ss))

\* an adjacent citation tag pair around a name and a url
Cite(name, url) == CitationTag(name, url)

HttpUrl == "https://gartner.com"
OtherUrl == "ftp://files"

\* the renderer not entered, nothing written, nothing returned
NoRender ==
    /\ render_pc = "idle"
    /\ story = <<>>
    /\ render_idx = 1
    /\ builds = 0
    /\ copy_calls = 0
    /\ upload_calls = 0
    /\ statuses = <<>>
    /\ start_result = NoResult

\* no report generation in progress
NoReport ==
    /\ response = [raises |-> FALSE, text |-> <<>>]
    /\ custom_context = "None"
    /\ use_cases = <<>>
    /\ scraped_results = <<>>
    /\ report_pc = "idle"
    /\ xml_report = <<>>
    /\ agent_calls = 0
    /\ fallback_calls = 0
    /\ pdf_file = "none"
    /\ pdf_url = "unset"
    /\ NoRender

\* no call of the quality heuristic
NoQualityCheck ==
    /\ quality_arg = <<>>
    /\ quality_pc = "idle"
    /\ quality_result = FALSE

\* no call of parse_xml_tags yet
NoParse ==
    /\ raw = [c \in Calls |-> <<>>]
    /\ xml_content = [c \in Calls |-> <<>>]
    /\ pc = [c \in Calls |-> "idle"]
    /\ all_sections = [c \in Calls |-> <<>>]
    /\ idx = [c \in Calls |-> 0]
    /\ citation_counter = [c \in Calls |-> 0]
    /\ parsed_content = [c \in Calls |-> NewParsedContent]

\* the state of the frames before any step: every call has its argument
InitFrames(args) ==
    /\ raw = args
    /\ xml_content = args
    /\ pc = [c \in Calls |-> "called"]
    /\ all_sections = [c \in Calls |-> <<>>]
    /\ idx = [c \in Calls |-> 0]
    /\ citation_counter = [c \in Calls |-> 0]
    /\ parsed_content = [c \in Calls |-> NewParsedContent]
    /\ NoReport
    /\ NoQualityCheck
    /\ NoRequest
    /\ NoOrchestrator

\* texts with citation pairs inside and outside blocks
MaxCiteFrags == 4

CiteFrags ==
    {<<"<content>">>, <<"</content>">>,
     <<"<section>", "<content>">>, <<"</content>", "</section>">>,
     Cite(<<"Gartner">>, <<HttpUrl>>),
     Cite(<<" ", "Gartner">>, <<HttpUrl>>),
     Cite(<<"Gartner">>, <<OtherUrl>>),
     Cite(<<" ">>, <<HttpUrl>>),
     Cite(<<"Gartner">>, <<>>),
     InlineCitation(<<HttpUrl>>, 7)}

CiteTexts == {Flatten(f) : f \in SeqsUpTo(CiteFrags, MaxCiteFrags)}

InitCitations ==
    \E t \in CiteTexts :
        InitFrames([c \in Calls |-> IF c = "call_a" THEN t ELSE <<>>])

SpecCitations == InitCitations /\ [][NextParse]_vars

\* texts of whole blocks, stray opening and closing tags and plain prose
MaxBlockFrags == 4

BlockFrags ==
    {Block("content", <<"A">>), Block("sub-heading", <<"B">>),
     Block("content", <<"C">>),
     <<"<content>">>, <<"</content>">>, <<"<sub-heading>">>,
     <<"</sub-heading>">>, <<"A">>, <<"<">>}

BlockTexts == {Flatten(f) : f \in SeqsUpTo(BlockFrags, MaxBlockFrags)}

InitBlocks ==
    \E t \in BlockTexts :
        InitFrames([c \in Calls |-> IF c = "call_a" THEN t ELSE <<>>])

SpecBlocks == InitBlocks /\ [][NextParse]_vars

\* one content block whose body mixes formatting tags and a word
MaxBody == 4

FormatAtoms ==
    {"<bold>", "</bold>", "<italic>", "</italic>", "<underline>",
     "</underline>", "X"}

FormatTexts == {Block("content", b) : b \in SeqsUpTo(FormatAtoms, MaxBody)}

InitFormat ==
    \E t \in FormatTexts :
        InitFrames([c \in Calls |-> IF c = "call_a" THEN t ELSE <<>>])

SpecFormat == InitFormat /\ [][NextParse]_vars

\* three calls at once, each on a text of its own
MaxPureFrags == 1

PureFrags ==
    {<<"<heading_bold>", "T", "</heading_bold>">>
         \o Block("content", <<"A">> \o Cite(<<"Gartner">>, <<HttpUrl>>)),
     Block("content", Cite(<<"Gartner">>, <<OtherUrl>>))
         \o Block("sub-heading", <<"B">>)
         \o Block("content", Cite(<<"Gartner">>, <<HttpUrl>>)),
     Block("content", <<"<bold>", "A", "</bold>">>)}

PureTexts == {Flatten(f) : f \in SeqsUpTo(PureFrags, MaxPureFrags)}

InitPure == \E args \in [Calls -> PureTexts] : InitFrames(args)

SpecPure == InitPure /\ [][NextParse]_vars

RECURSIVE Rep(_, _)
\* the string str * n
Rep(str, n) ==
    IF n = 0 THEN ""
    ELSE LET half == Rep(str, n \div 2)
         IN  IF n % 2 = 0 THEN half \o half ELSE half \o half \o str

\* texts for the quality heuristic: long and short lines, line feeds,
\* truncation markers, and an ending
MaxQualityAtoms == 4

LongLineA == Rep("a", 500)
LongLineB == Rep("b", 500)

QualityAtoms == {LongLineA, LongLineB, "\n", "...", "x"}

QualityEndings ==
    {<<>>, <<"\n">>, <<"</content>">>, <<"</paragraph>">>, <<"</section>">>,
     <<"</list>">>}

QualityTexts ==
    {b \o e : b \in SeqsUpTo(QualityAtoms, MaxQualityAtoms),
              e \in QualityEndings}

InitQuality ==
    /\ \E t \in QualityTexts : quality_arg = t
    /\ quality_pc = "called"
    /\ quality_result = FALSE
    /\ NoParse
    /\ NoReport
    /\ NoRequest
    /\ NoOrchestrator

SpecQuality == InitQuality /\ [][NextQuality]_vars

\* answers of the report agent: texts of blocks, long and short, cut short
\* or not, and an exception
MaxReportFrags == 3
MaxUseCases == 2

ReportFrags ==
    {Block("content", <<Rep("a", 1167)>>),
     Block("paragraph", <<LongLineB>>),
     Block("section", <<"A">>),
     <<"\n">>,
     <<"...(truncated)">>}

Responses ==
    {[raises |-> FALSE, text |-> Flatten(f)] :
        f \in SeqsUpTo(ReportFrags, MaxReportFrags)}
    \cup {[raises |-> TRUE, text |-> <<>>]}

UseCases ==
    {[title |-> "Invoice Automation",
      current_state |-> "Invoices are keyed in by hand.",
      proposed_solution |-> "Extract invoice fields with Textract."],
     [title |-> "Demand Forecasting",
      current_state |-> "Forecasts live in spreadsheets.",
      proposed_solution |-> "Train forecasting models on sales history."]}

MaxScraped == 2

ScrapedResults ==
    {[success |-> TRUE, title |-> "Home - Acme Cloud Strategy ",
      url |-> "https://acme.example/strategy"],
     [success |-> TRUE, title |-> Rep("Acme ", 17),
      url |-> "https://acme.example/long"],
     [success |-> TRUE, title |-> "Acme", url |-> "https://acme.example"],
     [success |-> FALSE, title |-> "Acme Annual Report",
      url |-> "https://acme.example/annual"]}

\* the response of an agent that is not invoked: it plays no part
NeverAsked == [raises |-> FALSE, text |-> <<>>]

\* an answering agent with one use case and no scraped result, or a raising
\* agent or no processed prompt with any use cases and scraped results
InitReport ==
    /\ \E r \in Responses, context \in CustomContexts :
          /\ response = r
          /\ custom_context = context
          /\ ~HasProcessedPrompt(context) => r = NeverAsked
          /\ IF r.raises \/ ~HasProcessedPrompt(context)
             THEN /\ \E u \in SeqsUpTo(UseCases, MaxUseCases) : use_cases = u
                  /\ \E w \in SeqsUpTo(ScrapedResults, MaxScraped) :
                        scraped_results = w
             ELSE /\ \E u \in SeqsUpTo(UseCases, 1) : use_cases = u
                  /\ scraped_results = <<>>
    /\ report_pc = "start"
    /\ xml_report = <<>>
    /\ agent_calls = 0
    /\ fallback_calls = 0
    /\ pdf_file = "none"
    /\ pdf_url = "unset"
    /\ NoRender
    /\ NoRequest
    /\ NoOrchestrator
    /\ NoParse
    /\ NoQualityCheck

SpecReport == InitReport /\ [][NextParse \/ NextReport]_vars

MaxRenderFrags == 3

\* a name of exactly TitleLimit characters and one a character longer
NameAtLimit == Rep("a", TitleLimit)
NameOverLimit == Rep("a", TitleLimit + 1)

RenderFrags ==
    {Block("heading_bold", <<"Acme Report">>),
     Block("content", <<"Costs fall ">> \o Cite(<<"Gartner">>, <<HttpUrl>>)),
     Block("paragraph", Cite(<<NameOverLimit>>, <<OtherUrl>>)),
     Block("sub-heading", Cite(<<NameAtLimit>>, <<HttpUrl>>)),
     Block("list", Block("bullet", <<"Plan">>) \o <<"\n">>
                   \o Block("number", <<"Build">>)),
     Block("content", <<" ">>)}

RenderResponses ==
    {[raises |-> FALSE, text |-> Flatten(f)] :
        f \in SeqsUpTo(RenderFrags, MaxRenderFrags)}
    \cup {[raises |-> TRUE, text |-> <<>>]}

\* an answering agent whose text holds a title, citations and a list, or a
\* raising agent with any use cases and scraped results
InitRender ==
    /\ \E r \in RenderResponses, context \in CustomContexts :
          /\ response = r
          /\ custom_context = context
          /\ ~HasProcessedPrompt(context) => r = NeverAsked
          /\ IF r.raises \/ ~HasProcessedPrompt(context)
             THEN /\ \E u \in SeqsUpTo(UseCases, MaxUseCases) : use_cases = u
                  /\ \E w \in SeqsUpTo(ScrapedResults, MaxScraped) :
                        scraped_results = w
             ELSE /\ use_cases = <<>>
                  /\ scraped_results = <<>>
    /\ report_pc = "start"
    /\ xml_report = <<>>
    /\ agent_calls = 0
    /\ fallback_calls = 0
    /\ pdf_file = "none"
    /\ pdf_url = "unset"
    /\ NoRender
    /\ NoRequest
    /\ NoOrchestrator
    /\ NoParse
    /\ NoQualityCheck

SpecRender == InitRender /\ [][NextParse \/ NextReport]_vars

\* blocks with numbered items and citations
MaxNumberFrags == 3

NumberFrags ==
    {Block("content", Block("number", <<"Plan">>)
                      \o Block("number", <<"Build">>)
                      \o Cite(<<"Gartner">>, <<HttpUrl>>)),
     Block("list", Block("number", <<"Run">>)
                   \o Cite(<<"Gartner">>, <<HttpUrl>>)),
     Block("content", Block("number", <<"Only">>)),
     Block("sub-heading", Cite(<<"Gartner">>, <<OtherUrl>>)),
     Block("paragraph", <<"Text">>),
     Block("content", <<"<number>", "Open">>)}

NumberTexts == {Flatten(f) : f \in SeqsUpTo(NumberFrags, MaxNumberFrags)}

InitNumbering ==
    \E t \in NumberTexts :
        InitFrames([c \in Calls |-> IF c = "call_a" THEN t ELSE <<>>])

SpecNumbering == InitNumbering /\ [][NextParse]_vars

\* concurrent requests on one orchestrator
InitSessions ==
    /\ NoOrchestrator
    /\ NoRequest
    /\ NoParse
    /\ NoReport
    /\ NoQualityCheck

SpecSessions == InitSessions /\ [][NextSessions]_vars

\* one request writing its checkpoints while polls for its session arrive
InitStatus ==
    /\ NoOrchestrator
    /\ NoRequest
    /\ NoParse
    /\ NoReport
    /\ NoQualityCheck

SpecStatus == InitStatus /\ [][NextStatus]_vars

\* the use-case agent raises, or answers with up to MaxBlocks <usecase>
\* blocks, each of which parses or does not
MaxBlocks == 11

Generators ==
    {[raises |-> FALSE, blocks |-> b] :
        b \in SeqsUpTo({"parses", "fails"}, MaxBlocks)}
    \cup {[raises |-> TRUE, blocks |-> <<>>]}

InitUseCases ==
    /\ \E g \in Generators : generator = g
    /\ uc_pc = "called"
    /\ uc_returned = <<>>
    /\ uc_checkpoints = <<>>
    /\ NoSessionCalls
    /\ NoStatus
    /\ NoRequest
    /\ NoParse
    /\ NoReport
    /\ NoQualityCheck

SpecUseCases == InitUseCases /\ [][NextGeneration]_vars

\* a request body
Payload(company_name, action, fetch_type, session_id) ==
    [company_name |-> company_name, company_url |-> "", action |-> action,
     fetch_type |-> fetch_type, session_id |-> session_id,
     selected_use_case_ids |-> <<>>]

\* two spellings of one company, another company, a missing company name,
\* and polls of the status with and without a session
Payloads ==
    {Payload("Acme", "start", "", ""),
     Payload(" ACME ", "start", "", ""),
     Payload("Globex", "start", "", ""),
     Payload(" ", "start", "", ""),
     Payload("Acme", "fetch", "status", "session-1"),
     Payload("Acme", "fetch", "status", "")}

InitRequests ==
    /\ NoRequest
    /\ NoOrchestrator
    /\ NoParse
    /\ NoReport
    /\ NoQualityCheck

NextRequests ==
    \E i \in Invocations :
        \/ \E payload \in Payloads : LambdaBegin(i, payload)
        \/ CheckCache(i)
        \/ ProcessRequest(i)
        \/ RunPipeline(i)
        \/ SaveAndAnswer(i)
        \/ LambdaReturn(i)

SpecRequests == InitRequests /\ [][NextRequests \/ Midnight]_vars

\* a 'select_use_cases' body
SelectPayload(company_name, session_id, ids) ==
    [Payload(company_name, "select_use_cases", "", session_id)
        EXCEPT !.selected_use_case_ids = ids]

\* a start for a session and selections for it, for another session and
\* without ids
SelectPayloads ==
    {Payload("Acme", "start", "", "session-1"),
     SelectPayload("Acme", "session-1",
                   <<"business-transformation-fallback-1">>),
     SelectPayload("Acme", "session-2",
                   <<"business-transformation-fallback-1">>),
     SelectPayload("Acme", "session-1", <<>>)}

NextSelect ==
    \E i \in Invocations :
        \/ \E payload \in SelectPayloads : LambdaBegin(i, payload)
        \/ CheckCache(i)
        \/ ProcessRequest(i)
        \/ RunPipeline(i)
        \/ SaveAndAnswer(i)
        \/ LambdaReturn(i)

SpecSelect == InitRequests /\ [][NextSelect \/ Midnight]_vars

----------------------------------------------------------------------------
(* Vocabulary of the claims about parsing *)

Returned(c) == pc[c] = "returned"

Model(c) == parsed_content[c]

\* s holds pat as a contiguous piece
Contains(s, pat) == \E p \in 1..Len(s) : StartsAt(s, pat, p)

\* the url starts with 'http'
StartsWithHttp(url) ==
    /\ url # <<>>
    /\ Len(Head(url)) >= 4
    /\ SubSeq(Head(url), 1, 4) = "http"

\* a valid citation occurrence in the sense of the specification
ValidPair(name, url) == name # <<>> /\ StartsWithHttp(url)

\* the trimmed <<name, url>> of the citation pairs of a text, in order
PairsOf(s) ==
    LET ms == CitationMatches(s, 1)
    IN  [k \in 1..Len(ms) |-> <<MatchName(s, ms[k]), MatchUrl(s, ms[k])>>]

IsValidPair(p) == ValidPair(p[1], p[2])
IsKeptPair(p) == p[1] # <<>> /\ p[2] # <<>>

RECURSIVE BlockPairs(_, _)
\* the pairs of the bodies of the extracted blocks, block after block
BlockPairs(secs, k) ==
    IF k > Len(secs) THEN <<>>
    ELSE PairsOf(secs[k].content) \o BlockPairs(secs, k + 1)

\* the table is exactly the pairs ps, numbered 1..Len(ps) in that order
TableIs(table, ps) ==
    /\ DOMAIN table = {ToString(n) : n \in 1..Len(ps)}
    /\ \A n \in 1..Len(ps) :
          /\ table[ToString(n)].number = n
          /\ table[ToString(n)].full_name = ps[n][1]
          /\ table[ToString(n)].url = ps[n][2]

MarkerNumberAt(s, p) ==
    IF p > Len(s) \/ s[p] # LinkOpen THEN ""
    ELSE LET quotes == {q \in (p + 1)..Len(s) : HasQuote(s[q])}
         IN  IF quotes = {} THEN ""
             ELSE LET q == Min(quotes)
                      ends == {e \in (q + 3)..Len(s) : ~IsDigits(s[e])}
                  IN  IF s[q] # LinkMid \/ ~StartsAt(s, <<"<u>", "[">>, q + 1)
                         \/ ends = {}
                      THEN ""
                      ELSE LET e == Min(ends)
                           IN  IF e > q + 3
                                  /\ StartsAt(s, <<"]", "</u>", "</link>">>, e)
                               THEN Concat(SubSeq(s, q + 3, e - 1))
                               ELSE ""

\* the numbers of the inline reference markers present in a text
MarkerNumbers(s) ==
    {MarkerNumberAt(s, p) : p \in 1..Len(s)} \ {""}

\* the number of kept pairs in the blocks before block k
KeptBefore(secs, k) ==
    Len(SelectSeq(BlockPairs(SubSeq(secs, 1, k - 1), 1), IsKeptPair))

\* C3: every valid citation occurrence inside a block is replaced, in that
\* block's text, by a marker carrying the number assigned to that very
\* occurrence and its url, and no literal tags of a valid pair remain; also
\* when the pair repeats in the block or its values carry whitespace.
C3_AsStated ==
    \A c \in Calls :
        Returned(c) =>
            \A k \in 1..Len(Model(c).sections) :
                LET body == all_sections[c][k].content
                    ps == PairsOf(body)
                    text == Model(c).sections[k].content
                    left == PairsOf(text)
                    Number(n) == KeptBefore(all_sections[c], k)
                                 + Len(SelectSeq(SubSeq(ps, 1, n), IsKeptPair))
                IN  /\ \A n \in 1..Len(ps) :
                           IsValidPair(ps[n]) =>
                               Contains(text, InlineCitation(ps[n][2], Number(n)))
                    /\ \A n \in 1..Len(left) : ~IsValidPair(left[n])

\* C4 as stated: for any input text, every marker present in a block's text
\* carries a number that is a key of the citation table.
C4_AsStated ==
    \A c \in Calls :
        Returned(c) =>
            \A k \in 1..Len(Model(c).sections) :
                MarkerNumbers(Model(c).sections[k].content)
                    \subseteq DOMAIN Model(c).citations

\* C4 amended: for input text holding no double quote character (so no text
\* that already has the form of a marker), every marker present in a block's
\* text carries a number that is a key of the citation table.
C4_MarkersResolve ==
    \A c \in Calls :
        (Returned(c) /\ \A p \in 1..Len(raw[c]) : ~HasQuote(raw[c][p])) =>
            \A k \in 1..Len(Model(c).sections) :
                MarkerNumbers(Model(c).sections[k].content)
                    \subseteq DOMAIN Model(c).citations

\* a returned block holding the markers 1 and 2, from an input without quotes
C4_Witness ==
    \E c \in Calls :
        /\ Returned(c)
        /\ \A p \in 1..Len(raw[c]) : ~HasQuote(raw[c][p])
        /\ \E k \in 1..Len(Model(c).sections) :
              MarkerNumbers(Model(c).sections[k].content) = {"1", "2"}

\* the text holds no atom with a '>', so no angle-bracket tag
NoTag(s) == \A p \in 1..Len(s) : ~HasGt(s[p])

\* C5: an input without any angle-bracket tag (the empty string, plain prose)
\* yields empty title, no block and no citation; every call on a string runs to
\* its return; an opening structural tag that no closing tag of its name
\* follows contributes no block.
C5_LenientOnMalformedInput ==
    \A c \in Calls :
        /\ pc[c] \in {"called", "loop", "returned"}
        /\ pc[c] = "loop" => idx[c] \in 1..(Len(all_sections[c]) + 1)
        /\ Returned(c) =>
              /\ NoTag(raw[c]) =>
                    /\ Model(c).title = <<>>
                    /\ Model(c).sections = <<>>
                    /\ Model(c).citations = <<>>
              /\ Len(Model(c).sections) = Len(all_sections[c])
              /\ \A p \in 1..Len(xml_content[c]) :
                    \A k \in 1..Len(section_patterns) :
                        (/\ xml_content[c][p] = OpenTag(section_patterns[k])
                         /\ \A q \in (p + 1)..Len(xml_content[c]) :
                               xml_content[c][q] # CloseTag(section_patterns[k]))
                        => \A b \in 1..Len(all_sections[c]) :
                               all_sections[c][b].start_pos # p

\* a returned call on a text that closes one block and then opens a block
\* that it never closes
C5_Witness ==
    \E c \in Calls :
        /\ Returned(c)
        /\ raw[c] = Block("sub-heading", <<"B">>) \o <<"<content>", "A">>
        /\ Len(Model(c).sections) = 1

OrderingExample ==
    Block("content", <<"A">>) \o Block("sub-heading", <<"B">>)
    \o Block("content", <<"C">>)

\* C6: the returned blocks are in ascending order of the position of their
\* opening tag, whatever their types and the order the scans found them in;
\* <content>A</content><sub-heading>B</sub-heading><content>C</content> gives
\* exactly [content A, sub-heading B, content C].
C6_BlocksInSourceOrder ==
    \A c \in Calls :
        Returned(c) =>
            /\ Len(Model(c).sections) = Len(all_sections[c])
            /\ \A k \in 1..Len(all_sections[c]) :
                  /\ Model(c).sections[k].type = all_sections[c][k].type
                  /\ xml_content[c][all_sections[c][k].start_pos] =
                         OpenTag(Model(c).sections[k].type)
                  /\ k > 1 => all_sections[c][k - 1].start_pos
                              < all_sections[c][k].start_pos
            /\ raw[c] = OrderingExample =>
                  Model(c).sections =
                      <<[type |-> "content", content |-> <<"A">>],
                        [type |-> "sub-heading", content |-> <<"B">>],
                        [type |-> "content", content |-> <<"C">>]>>

\* the example of the claim, parsed
C6_Witness ==
    \E c \in Calls :
        /\ Returned(c)
        /\ raw[c] = OrderingExample
        /\ Len(Model(c).sections) = 3

\* the short tag a formatting tag is rewritten to
ShortName(n) ==
    CASE n = "bold" -> "b" [] n = "italic" -> "i" [] n = "underline" -> "u"

FormatNames == {"bold", "italic", "underline"}

\* the body of the single content block of a text
BodyOf(s) == SubSeq(s, 2, Len(s) - 1)

\* out is body with some formatting tags rewritten in place, an opening tag
\* only together with a later closing tag of its own name and conversely, and
\* every other atom untouched
RewrittenInPairs(body, out) ==
    /\ Len(out) = Len(body)
    /\ \A p \in 1..Len(body) :
          \/ out[p] = body[p]
          \/ \E n \in FormatNames :
                /\ body[p] = OpenTag(n)
                /\ out[p] = OpenTag(ShortName(n))
                /\ \E q \in (p + 1)..Len(body) :
                      body[q] = CloseTag(n) /\ out[q] = CloseTag(ShortName(n))
          \/ \E n \in FormatNames :
                /\ body[p] = CloseTag(n)
                /\ out[p] = CloseTag(ShortName(n))
                /\ \E q \in 1..(p - 1) :
                      body[q] = OpenTag(n) /\ out[q] = OpenTag(ShortName(n))

MismatchExample == <<"<bold>", "X", "</italic>">>

\* C7: a bold, italic or underline tag is rewritten only as one of a pair, an
\* opening tag with a later closing tag of the same name; <bold>X</italic>
\* comes out unchanged; no tag is dropped and the call always returns.
C7_FormattingOnlyMatchedPairs ==
    \A c \in Calls :
        /\ pc[c] = "loop" => idx[c] \in 1..(Len(all_sections[c]) + 1)
        /\ (Returned(c) /\ raw[c] # <<>>) =>
              /\ Len(Model(c).sections) = 1
              /\ RewrittenInPairs(BodyOf(raw[c]), Model(c).sections[1].content)
              /\ BodyOf(raw[c]) = MismatchExample =>
                    Model(c).sections[1].content = MismatchExample
              /\ \A p \in 1..Len(BodyOf(raw[c])) : \A n \in FormatNames :
                    (/\ BodyOf(raw[c])[p] = OpenTag(n)
                     /\ \A q \in (p + 1)..Len(BodyOf(raw[c])) :
                           BodyOf(raw[c])[q] # CloseTag(n))
                    => Model(c).sections[1].content[p] = OpenTag(n)

\* a body with one matched pair rewritten next to a mismatched opening tag kept
C7_Witness ==
    \E c \in Calls :
        /\ Returned(c)
        /\ BodyOf(raw[c]) = <<"<italic>", "<bold>", "X", "</bold>">>
        /\ Model(c).sections[1].content = <<"<italic>", "<b>", "X", "</b>">>

----------------------------------------------------------------------------
(* Vocabulary of the claims about report generation *)

\* the text the agent's answer becomes: str(response).strip()
AgentText == Strip(response.text)

\* C9 as stated: once the agent has answered with a text that the quality
\* heuristic judges incomplete or repetitive, the fallback generator has been
\* invoked and the text handed to the parser is not the agent's text.
C9_AsStated ==
    (/\ report_pc \notin {"idle", "start"}
     /\ agent_calls >= 1
     /\ ~response.raises
     /\ IsReportIncompleteOrRepetitive(AgentText))
    => /\ fallback_calls >= 1
       /\ xml_report # AgentText
       /\ pc["call_a"] # "idle" => raw["call_a"] # AgentText

\* the string the argument of the heuristic stands for
QualityString == Concat(quality_arg)

\* the closing tags of the block tags and of the title tag
ClosingStructuralTags ==
    {CloseTag(section_patterns[k]) : k \in 1..Len(section_patterns)}
    \cup {CloseTag("heading_bold")}

\* fewer than 7 in 10 of the lines of the text are distinct
LowUniqueLineRatio ==
    LET spans == LineSpans(quality_arg)
        distinct == {Concat(SubSeq(quality_arg, sp[1] + 1, sp[2] - 1)) :
                        sp \in spans}
    IN  10 * Cardinality(distinct) < 7 * Cardinality(spans)

\* three dots in a row among the last 1000 characters of the text
EllipsisInLast1000 ==
    LET n == Len(QualityString)
        from == IF n > 1000 THEN n - 999 ELSE 1
    IN  \E i \in from..(n - 2) : SubSeq(QualityString, i, i + 2) = "..."

EndsWithOneOf(tags) ==
    \E t \in tags :
        /\ Len(QualityString) >= Len(t)
        /\ SubSeq(QualityString, Len(QualityString) - Len(t) + 1,
                  Len(QualityString)) = t

\* C10 as stated: the verdict is True exactly when the text is shorter than
\* 1000 characters, or its unique-line ratio is below 0.7, or it does not end
\* with a closing structural tag of the vocabulary, or '...' occurs in its
\* last 1000 characters.
C10_AsStated ==
    quality_pc = "returned" =>
        quality_result = (\/ Len(QualityString) < 1000
                          \/ LowUniqueLineRatio
                          \/ ~EndsWithOneOf(ClosingStructuralTags)
                          \/ EllipsisInLast1000)

\* C10, amended: the verdict is True exactly when the text is shorter than
\* 1000 characters, or its unique-line ratio is below 0.7, or it does not end
\* with </paragraph> or </content>, or '...' occurs in its last 1000
\* characters; otherwise it is False.
C10_VerdictIsTheFourTests ==
    quality_pc = "returned" =>
        quality_result = (\/ Len(QualityString) < 1000
                          \/ LowUniqueLineRatio
                          \/ ~EndsWithOneOf({"</paragraph>", "</content>"})
                          \/ EllipsisInLast1000)

\* a text of two distinct long lines ending with </content> was judged
\* complete
C10_Witness ==
    /\ quality_pc = "returned"
    /\ quality_result = FALSE
    /\ Len(QualityString) >= 1000
    /\ EndsWithOneOf({"</content>"})
    /\ Cardinality(LineSpans(quality_arg)) >= 2

----------------------------------------------------------------------------
(* Vocabulary of the claims about the fallback generator *)

\* the fallback generator was invoked and returned a document
FallbackReturned == fallback_calls >= 1 /\ xml_report # <<>>

\* the positions where a use case section starts in a fallback document
SectionStarts(text) ==
    {p \in 1..(Len(text) - 1) : text[p] = "<sub-heading>" /\ text[p + 1] = "3."}

\* the text of the i-th use case section: from its start up to the next start
\* or the end of the document
SectionText(text, i) ==
    LET starts == SectionStarts(text)
        p == CHOOSE q \in starts : Cardinality({r \in starts : r < q}) = i - 1
        later == {r \in starts : r > p}
    IN  SubSeq(text, p, IF later = {} THEN Len(text) ELSE Min(later) - 1)

\* C11 as stated: for every list of N >= 0 use cases the fallback generator
\* returns a document, without raising, that holds exactly N use case
\* sections in input order, the i-th with the title and the proposed solution
\* of the i-th use case.
C11_AsStated ==
    fallback_calls >= 1 =>
        /\ xml_report # <<>>
        /\ ~(report_pc \in {"done", "returned"} /\ pc["call_a"] = "idle")
        /\ Cardinality(SectionStarts(xml_report)) = Len(use_cases)
        /\ \A i \in 1..Len(use_cases) :
              /\ SectionText(xml_report, i)[3] = ToString(i)
              /\ Contains(SectionText(xml_report, i), <<use_cases[i].title>>)
              /\ Contains(SectionText(xml_report, i),
                          <<use_cases[i].proposed_solution>>)

\* the citation list of the fallback generator
AvailableCitations ==
    IF scraped_results # <<>> THEN PrepareRealCitations(scraped_results)
    ELSE <<>>

\* the tag of the citation at index mod L
WrappedTag(index) ==
    LET citation ==
            AvailableCitations[(index % Len(AvailableCitations)) + 1]
    IN  CitationTag(<<citation.name>>, <<citation.url>>)

\* C20 as stated: with L >= 1 available citations the section of the i-th
\* use case carries the citation tags at indices i mod L, 2i mod L, 3i mod L
\* and 4i mod L.
C20_AsStated ==
    (FallbackReturned /\ Len(AvailableCitations) >= 1) =>
        \A i \in 1..Len(use_cases) :
            \A k \in 1..4 :
                Contains(SectionText(xml_report, i), WrappedTag(k * i))

----------------------------------------------------------------------------
(* Vocabulary of the claims about rendering and delivery *)

\* the model the renderer is given
RenderedModel == parsed_content["call_a"]

\* the title block has been appended
TitleEmitted == render_pc \in {"sections", "build", "built"}

\* C12 as stated: when the title of the parsed model is empty the title
\* block carries the default 'GenAI Transformation Strategy for
\* <company_name>', and the title block never has an empty text.
C12_AsStated ==
    TitleEmitted =>
        /\ story[1].kind = "Paragraph"
        /\ story[1].text # <<>>
        /\ RenderedModel.title = <<>> => story[1].text = DefaultTitle

\* the number of entries of the citation table of the rendered model
CitationCount == Cardinality(DOMAIN RenderedModel.citations)

\* the flowables appended after the last content block
CitationSection ==
    SubSeq(story, Len(story) - 2 * CitationCount - 4, Len(story))

\* the paragraph of the k-th entry of the citation section
CitationEntry(k) == CitationSection[4 + 2 * k]

\* a link to the url that shows the label
LinkTo(url, label) == <<LinkOpen>> \o url \o <<LinkMid>> \o label \o <<"</link>">>

\* the text ends with the atoms of the suffix
EndsWithAtoms(text, suffix) ==
    /\ Len(text) >= Len(suffix)
    /\ SubSeq(text, Len(text) - Len(suffix) + 1, Len(text)) = suffix

\* C13 as stated: with a non-empty citation table the story ends, after all
\* content blocks, with a 'Citation Sources' section holding one entry per
\* table entry in ascending number order, each a link to the url of the
\* citation labelled with its full, untruncated name.
C13_AsStated ==
    (render_pc \in {"build", "built"} /\ CitationCount > 0) =>
        /\ Len(story) >= 2 * CitationCount + 9
        /\ CitationSection[4].text = <<"Citation Sources">>
        /\ \A k \in 1..CitationCount :
              LET info == RenderedModel.citations[ToString(k)]
              IN  /\ SubSeq(CitationEntry(k).text, 1, 3)
                         = <<"[", ToString(k), "]">>
                  /\ EndsWithAtoms(CitationEntry(k).text,
                                   LinkTo(info.url, info.full_name))

\* the flowables of the first n content blocks, in block order
ContentFlowables(n) ==
    Flatten([k \in 1..n |-> SectionFlowables(RenderedModel.sections[k])])

\* what the story holds at each position of the renderer
StoryInOrder ==
    /\ render_pc \in {"idle", "title"} => story = <<>>
    /\ render_pc = "sections" =>
          story = TitleFlowables(RenderedModel)
                  \o ContentFlowables(render_idx - 1)
    /\ render_pc \in {"build", "built"} =>
          story = TitleFlowables(RenderedModel)
                  \o ContentFlowables(Len(RenderedModel.sections))
                  \o CitationFlowables(RenderedModel.citations)
    /\ builds = (IF render_pc = "built" THEN 1 ELSE 0)

\* a step appends to the story or leaves it; after the citation section and
\* after the build nothing is appended, and the document is not built again
StoryOnlyGrows ==
    /\ Len(story') >= Len(story)
    /\ SubSeq(story', 1, Len(story)) = story
    /\ (render_pc \notin {"title", "sections"} \/ builds > 0) => story' = story
    /\ builds > 0 => builds' = builds

\* C14: within one render call the title block comes first, the content
\* blocks follow in the block order of the model, the citation section comes
\* last, and the document is built once, after the citation section, with
\* nothing emitted afterwards.
C14_EmissionOrder == [](StoryInOrder) /\ [][StoryOnlyGrows]_vars

C14_Witness ==
    /\ render_pc = "built"
    /\ builds = 1
    /\ Len(RenderedModel.sections) >= 2
    /\ CitationCount >= 1
    /\ Len(story) > 2 * CitationCount + 9

\* _generate_and_upload_pdf_from_xml has returned
PdfReturned == report_pc \in {"pdf_returned", "done", "returned"}

\* C15: the local copy and the upload happen only after a render that did
\* not raise, built the document and left a file that exists and is not
\* empty; when rendering raises or leaves no file or an empty one, None is
\* returned and neither the copy nor the upload has been invoked.
C15_UploadOnlyAfterVerifiedRender ==
    /\ (copy_calls > 0 \/ upload_calls > 0) =>
          /\ render_pc = "built"
          /\ builds = 1
          /\ copy_calls = 1
          /\ upload_calls <= 1
          /\ upload_calls = 0 => pdf_file = "ok"
    /\ (render_pc = "failed" \/ (render_pc = "built" /\ upload_calls = 0
                                 /\ pdf_file \in {"none", "empty"})) =>
          /\ copy_calls = 0
          /\ upload_calls = 0
          /\ PdfReturned => pdf_url = "None"

C15_Witness ==
    /\ render_pc = "built"
    /\ pdf_file = "empty"
    /\ report_pc = "pdf_returned"
    /\ pdf_url = "None"
    /\ copy_calls = 0
    /\ upload_calls = 0

\* C16 as stated: when no locator comes back, the caller is given an explicit
\* failure and the recorded status does not say that report generation
\* completed.
C16_AsStated ==
    (report_pc = "returned" /\ pdf_url = "None") =>
        /\ start_result.status = "error"
        /\ \A k \in 1..Len(statuses) :
              statuses[k] # "report_generation_completed"

\* C17 as stated: the display name of every citation is the trimmed name
\* when that has at most 50 characters and otherwise a truncation of it that
\* ends in an ellipsis; it never exceeds 50 characters, and full_name is the
\* whole trimmed name.
C17_AsStated ==
    \A c \in Calls :
        \A key \in DOMAIN parsed_content[c].citations :
            LET info == parsed_content[c].citations[key]
            IN  /\ CharLen(info.name) <= TitleLimit
                /\ CharLen(info.full_name) <= TitleLimit =>
                      info.name = info.full_name
                /\ CharLen(info.full_name) > TitleLimit =>
                      EndsWith(info.name, "...")
                /\ info.full_name = Strip(info.full_name)

----------------------------------------------------------------------------
(* Vocabulary of the claims about requests *)

\* the invocation is inside the research / use-case / report pipeline
InPipeline(i) == inv_pc[i] = "pipeline"

\* C18 as stated: while a request is being processed, a later request with
\* an identical payload does not run the pipeline a second time (it is
\* answered with status 'in_progress'): two invocations with the same
\* normalised payload are never inside the pipeline together.
C18_AsStated ==
    \A i, j \in Invocations :
        (i # j /\ InPipeline(i) /\ InPipeline(j)) =>
            GenerateSessionKey(event_body[i])
                # GenerateSessionKey(event_body[j])

\* the items saved under the cache key of the request of the invocation
SavedFor(i) == ItemsOf(cache_table, GenerateCacheKey(event_body[i]))

\* the step in which an invocation that is no poll of the status consults the
\* cache: an item of the current day is the answer and the orchestrator is
\* not invoked; an item of an earlier day gives None and the request goes on
\* to the orchestrator
CacheConsulted ==
    \A i \in Invocations :
        (inv_pc[i] = "begun" /\ inv_pc'[i] # "begun"
         /\ ~IsStatusPoll(event_body[i])) =>
            \A item \in SavedFor(i) :
                /\ item.cached_at = today =>
                      /\ inv_pc'[i] = "answered"
                      /\ http_response'[i].status = item.result.status
                      /\ http_response'[i].cache_hit
                /\ item.cached_at < today =>
                      /\ inv_pc'[i] = "miss"
                      /\ cached_result'[i] = None

----------------------------------------------------------------------------
(* Vocabulary of the claims about the counters of the parser *)

IsEmptyPair(p) == ~IsKeptPair(p)

\* the block that a step of the loop of parse_xml_tags has just processed
StepOfLoop(c) == pc[c] = "loop" /\ idx'[c] = idx[c] + 1

\* what the pairs of one block do to the table, the counter and the text: the
\* kept pairs get the next numbers in order, the pairs with an empty name or
\* url get none and their tags stay in the text
EmptyPairsChangeNothing ==
    \A c \in Calls :
        StepOfLoop(c) =>
            LET content == all_sections[c][idx[c]].content
                kept == SelectSeq(PairsOf(content), IsKeptPair)
                before == parsed_content[c].citations
                after == parsed_content'[c].citations
                text == parsed_content'[c].sections[idx[c]].content
            IN  /\ citation_counter'[c] = citation_counter[c] + Len(kept)
                /\ DOMAIN after =
                       DOMAIN before
                       \cup {ToString(citation_counter[c] + n - 1) :
                                n \in 1..Len(kept)}
                /\ \A key \in DOMAIN before : after[key] = before[key]
                /\ \A n \in 1..Len(kept) :
                       LET info == after[ToString(citation_counter[c] + n - 1)]
                       IN  /\ info.number = citation_counter[c] + n - 1
                           /\ info.full_name = kept[n][1]
                           /\ info.url = kept[n][2]
                /\ SelectSeq(PairsOf(text), IsEmptyPair)
                       = SelectSeq(PairsOf(content), IsEmptyPair)

\* C21: a matched pair whose trimmed name or trimmed url is empty inserts
\* nothing into the citation table, leaves the block text as it is and does
\* not advance the citation counter, so every later valid citation gets the
\* number it would get without the empty pair.
C21_EmptyPairIsSkippedWhole == [][EmptyPairsChangeNothing]_vars

\* a returned block with an empty pair in front of a kept one, which is
\* entry 1
C21_Witness ==
    \E c \in Calls :
        /\ Returned(c)
        /\ Len(Model(c).sections) = 1
        /\ Len(PairsOf(all_sections[c][1].content)) = 2
        /\ IsEmptyPair(PairsOf(all_sections[c][1].content)[1])
        /\ IsKeptPair(PairsOf(all_sections[c][1].content)[2])
        /\ DOMAIN Model(c).citations = {"1"}
        /\ Model(c).citations["1"].full_name
               = PairsOf(all_sections[c][1].content)[2][1]
        /\ citation_counter[c] = FirstCitation + 1


\* the labels that the <number> substitution has put into a text, in order
RECURSIVE NumberLabelsFrom(_, _)
NumberLabelsFrom(text, from) ==
    IF from >= Len(text) THEN <<>>
    ELSE IF IsDigits(text[from]) /\ text[from + 1] = ". "
         THEN <<text[from]>> \o NumberLabelsFrom(text, from + 2)
         ELSE NumberLabelsFrom(text, from + 1)

NumberLabels(text) == NumberLabelsFrom(text, 1)

\* how many <number>...</number> pairs a text holds
RECURSIVE NumberPairsFrom(_, _)
NumberPairsFrom(text, from) ==
    LET m == NextPair(text, OpenTag("number"), CloseTag("number"), from)
    IN  IF m[1] = 0 THEN 0 ELSE 1 + NumberPairsFrom(text, m[2] + 1)

\* the items of every processed block are labelled 1, 2, 3, ... from 1
ItemsRestartInEveryBlock ==
    \A c \in Calls :
        \A k \in 1..Len(parsed_content[c].sections) :
            NumberLabels(parsed_content[c].sections[k].content)
                = [n \in 1..NumberPairsFrom(all_sections[c][k].content, 1)
                      |-> ToString(n)]

\* the citations of a block get numbers above every number given before it
CitationsKeepCounting ==
    \A c \in Calls :
        StepOfLoop(c) =>
            /\ citation_counter'[c] >= citation_counter[c]
            /\ citation_counter[c] >= FirstCitation
            /\ \A key \in DOMAIN parsed_content[c].citations :
                   parsed_content[c].citations[key].number < citation_counter[c]
            /\ \A key \in DOMAIN parsed_content'[c].citations
                              \ DOMAIN parsed_content[c].citations :
                   parsed_content'[c].citations[key].number >= citation_counter[c]

\* C22: within each block of a parsed document the <number> items are
\* numbered 1, 2, 3, ... in order, starting at 1 again in every block, while
\* the citation numbers go on increasing from block to block and are never
\* reset within the document.
C22_ItemsRestartCitationsDoNot ==
    [](ItemsRestartInEveryBlock) /\ [][CitationsKeepCounting]_vars

\* two blocks, each with a numbered item and a citation: the items are 1, 2
\* and 1, the citations 1 and 2
C22_Witness ==
    \E c \in Calls :
        /\ Returned(c)
        /\ Len(Model(c).sections) = 2
        /\ NumberLabels(Model(c).sections[1].content) = <<"1", "2">>
        /\ NumberLabels(Model(c).sections[2].content) = <<"1">>
        /\ DOMAIN Model(c).citations = {"1", "2"}
        /\ Contains(Model(c).sections[1].content, <<"[", "1", "]">>)
        /\ Contains(Model(c).sections[2].content, <<"[", "2", "]">>)


----------------------------------------------------------------------------
(* Vocabulary of the claims about the session gate *)

\* the threads that are between a successful start_session and their
\* complete_session for the key
PastGate(session_key) ==
    {t \in Threads : /\ thr_key[t] = session_key
                     /\ thr_pc[t] \in {"handler", "completing", "except"}}

\* a thread that reaches the gate while another one is past it is answered
\* 'in_progress' or has seen the other one leave
TurnedAway ==
    \A t \in Threads :
        (/\ thr_pc[t] \in {"gate", "starting"}
         /\ thr_pc'[t] \notin {"gate", "starting"}
         /\ PastGate(thr_key[t]) # {})
            => /\ thr_pc'[t] \in {"info", "returned"}
               /\ thr_pc'[t] = "returned"
                      => thr_result'[t].status = "in_progress"

\* C23: on one SessionManager, under any interleaving of start_session,
\* is_session_active and complete_session, at most one start_session returns
\* True for a key between two complete_session calls for it; so at most one
\* process_request per key is past the session gate at a time and the others
\* are answered 'in_progress'.
C23_OneStartBetweenCompletes ==
    /\ [](\A k \in SessionKeys :
             /\ starts_granted[k] <= 1
             /\ Cardinality(PastGate(k)) <= 1)
    /\ [][TurnedAway]_vars

\* one thread is past the gate and two others with the same key have been
\* answered 'in_progress', one by each branch of the gate
C23_Witness ==
    /\ thr_key = [t \in Threads |-> "key_x"]
    /\ thr_pc["thr_a"] = "handler"
    /\ thr_pc["thr_b"] = "returned"
    /\ thr_pc["thr_c"] = "returned"
    /\ thr_result["thr_b"] = [status |-> "in_progress",
                              started_at |-> "recorded"]
    /\ thr_result["thr_c"] = [status |-> "in_progress",
                              started_at |-> "None"]
    /\ starts_granted["key_x"] = 1

\* a key is in the active sessions only while the thread that started it is
\* between start_session and complete_session
NoSessionLeftBehind ==
    \A k \in SessionKeys :
        k \in manager_sessions => PastGate(k) # {}

\* an 'in_progress' answer is given only while some other request with the
\* key is being processed
InProgressHasACause ==
    \A t \in Threads :
        (/\ thr_pc[t] \in {"gate", "starting"}
         /\ thr_pc'[t] \in {"info", "returned"})
            => PastGate(thr_key[t]) \ {t} # {}

\* C25: every session that process_request starts is removed from the active
\* sessions before it returns, whether the handler succeeds, returns an error
\* result, meets an unknown action or raises; a later request with the same
\* key is never answered 'in_progress' because of a request that has returned.
C25_SessionRemovedOnEveryPath ==
    [](NoSessionLeftBehind) /\ [][InProgressHasACause]_vars

\* a request whose handler raised has returned the error result, its session
\* is gone, and a later request with the same key is past the gate
C25_Witness ==
    /\ thr_pc["thr_a"] = "returned"
    /\ thr_outcome["thr_a"] = "raised"
    /\ thr_result["thr_a"].status = "error"
    /\ thr_key["thr_a"] = "key_x"
    /\ thr_key["thr_b"] = "key_x"
    /\ thr_pc["thr_b"] = "handler"
    /\ manager_sessions = {"key_x"}


----------------------------------------------------------------------------
(* Claims about the agent invocation, the cache and the status records *)

\* C24 as stated: every call of _generate_xml_report_with_enhanced_formatting
\* invokes the report agent, with or without a processed prompt in the custom
\* context, and the fallback template is returned only when that invocation
\* raised.
C24_AsStated ==
    report_pc \notin {"idle", "start"}
        => /\ agent_calls = 1
           /\ fallback_calls >= 1 => response.raises


\* C26 as stated: lambda_handler saves to the cache only results that are no
\* failures: no item of the cache table holds a result with status 'error',
\* and no request is answered with an error taken from the cache.
C26_AsStated ==
    /\ \A item \in cache_table : item.result.status # "error"
    /\ \A i \in Invocations :
           http_response[i].cache_hit => http_response[i].status # "error"


\* C27 as stated: the checkpoint_history stored for a session is append-only:
\* whatever update_status stores is the history stored before with the new
\* checkpoint appended, also when reading the previous history fails or the
\* simplified fallback write is used.
C27_AsStated ==
    [][status_item'.checkpoint_history # status_item.checkpoint_history
          => status_item'.checkpoint_history
                 = Append(status_item.checkpoint_history,
                          status_item'.current_status)]_vars

\* C28 as stated: when a status poll answers polling_recommended = false from
\* a status it has read, the request being polled has finished and writes no
\* further status.
C28_AsStated ==
    (/\ poll_result.polled
     /\ poll_result.read_ok
     /\ ~poll_result.polling_recommended)
        => wr_pc = "finished"


\* C30: generate_dynamic_use_cases returns at least 3 and at most 10 use
\* cases whatever the agent does: when it raises, when its response has no
\* <usecase> block, when fewer than 5 blocks parse and when more than 10 do;
\* the list handed to report generation is never empty.
C30_BetweenThreeAndTen ==
    uc_pc = "returned"
        => /\ Len(uc_returned) >= Len(business_supplements)
           /\ Len(uc_returned) <= MaxReturned
           /\ uc_returned # <<>>
           /\ generator.raises => uc_returned = GenerateFallbackUseCases
           /\ (~generator.raises /\ generator.blocks = <<>>)
                  => uc_returned = GenerateSupplementalUseCases(0)

\* eleven blocks parsed and the list returned holds the first ten
C30_Witness ==
    /\ uc_pc = "returned"
    /\ ~generator.raises
    /\ Len(ParsedFrom(generator.blocks, 1)) = MaxReturned + 1
    /\ Len(uc_returned) = MaxReturned
    /\ uc_returned[MaxReturned].dynamic_id = "business-transformation-9"


\* a 'start' request for the session has been answered through
\* lambda_handler with status 'use_cases_generated': its result is what the
\* cache holds for it
StartAnswered(session_id) ==
    \E item \in cache_table :
        /\ item.result.status = "use_cases_generated"
        /\ item.result.session_id = session_id

\* C29 as stated: once a 'start' request for session S has been answered with
\* 'use_cases_generated', a 'select_use_cases' request with the same session
\* id and ids from the returned list finds the stored session data and is
\* answered with status 'completed', not with 'Session not found'.
C29_AsStated ==
    \A i \in Invocations :
        (/\ inv_pc[i] = "processed"
         /\ event_body[i].action = "select_use_cases"
         /\ event_body[i].selected_use_case_ids # <<>>
         /\ StartAnswered(event_body[i].session_id))
            => /\ handler_result[i].status = "completed"
               /\ handler_result[i].message # "Session not found"

====
